---- MODULE Spec2Model ----
(***************************************************************************)
(* Sandbox lifecycle (orchestration/sandbox_manager.py) and episode        *)
(* orchestration (orchestration/episode_runner.py).                        *)
(*                                                                         *)
(* One main thread calls the public operations; every threading.Timer     *)
(* armed by start_container is a thread of its own.                        *)
(*                                                                         *)
(* Spec is one SandboxManager used directly.  The main thread is cut at    *)
(* each request to the Docker backend and the watchdog handler at each of  *)
(* its statements, so that every interleaving of the two on the shared     *)
(* manager fields is a behaviour.                                          *)
(*                                                                         *)
(* SpecEpisode is one EpisodeRunner, which constructs a SandboxManager per *)
(* episode and starts it once.  A watchdog firing is one step there: a     *)
(* manager that is never restarted holds no container after its stop, so   *)
(* a handler that overlaps or follows stop_container can change only       *)
(* timed_out and the count of kill requests, never a container's status,   *)
(* a handle or the runner.  SpecRuns is the same runner used for several   *)
(* tasks.                                                                  *)
(*                                                                         *)
(* SpecHandle is one SandboxManager started without a deadline, with its   *)
(* commands, file transfer, is_running and reconnect_to_container.         *)
(* SpecExtract is the same manager with extract_files_from_container on    *)
(* lists of paths.  SpecReset is one EpisodeRunner next to a manager that  *)
(* reconnects to the runner's container and is cleaned up, as              *)
(* reset_environment (mcp_server.py) does.                                 *)
(*                                                                         *)
(* SpecContext is the ContextRegistry of a process that did not start the  *)
(* sandbox, with get_context and its environment fallback (utils.py).      *)
(* SpecSessions is the registry used under several session keys, and       *)
(* SpecApi the episode API (episode_api.py) over its singleton runner and  *)
(* the keyless default context.                                            *)
(*                                                                         *)
(* Grading (grader.py, evaluation/grader.py) is a function of the task     *)
(* definition, the oracle files and the files of the run directory, which  *)
(* the variable disk holds.  SpecScore grades one-column spreadsheets of   *)
(* up to MaxCells cells, SpecFiles tasks of up to MaxFiles expected        *)
(* outputs that may be absent or unreadable, SpecCells every pair of       *)
(* small spreadsheets, SpecRound sheets of about MaxGrid rows and columns  *)
(* with a few wrong cells, and SpecNumeric compare_numeric on pairs of     *)
(* cell texts.  SpecCellRef is CellRef.from_a1 and CellRef.to_a1           *)
(* (utils.py) on short texts and small indices.                            *)
(***************************************************************************)
EXTENDS Integers, Sequences, FiniteSets, TLC

\* ---------------------------------------------------------------- bounds
MaxMgrs == 2          \* SandboxManager objects ever constructed
MaxContainers == 2    \* containers ever created in the backend
MaxTimers == 2        \* threading.Timer objects ever created
MaxRuns == 2          \* run directories per task
MaxStops == 2         \* stop requests one container is sent
MaxPaths == 2         \* paths passed to extract_files_from_container

Mgrs == 1..MaxMgrs
Cids == 1..MaxContainers
Tids == 1..MaxTimers

\* Python's None for object references (containers, timers, managers)
None == 0

\* task ids a caller may pass; only KnownTasks have a task.json
KnownTasks == {"t1", "t2"}
TaskIds == KnownTasks \cup {"nosuch"}

\* the task ids passed in SpecEpisode: one with a task.json, one without
EpisodeTasks == {"t1", "nosuch"}

\* grade_task_run's result kinds: it returns a dict on every path
GradeOutcomes == {"pass", "fail", "error"}

NoDir == [task |-> "", num |-> 0]
NoResult == "none"
NoError == "none"

\* session keys of the ContextRegistry; NoKey is session_id=None
NoKey == "None"
SessionIds == {"default", "s1"}
Keys == SessionIds \cup {NoKey}

\* an absent EpisodeContext (None) and an unset environment value
NoCtx == [task_id |-> "", run_dir |-> NoDir, sandbox_manager |-> None]
NoEnv == [task_id |-> "", run_dir |-> NoDir, container_id |-> None]
NoContainer == [status |-> "absent", by |-> None, stops |-> 0, kills |-> 0,
                reqs |-> FALSE, removed_by |-> None]
\* a threading.Timer not yet created
NoTimer == [state |-> "unused", m |-> None, armed_for |-> None]
EmptyRegistry == [contexts |-> [k \in SessionIds |-> NoCtx],
                  default_context |-> NoCtx]

\* --------------------------------------------------------- grading inputs
MaxFiles == 2         \* expected-output files a task declares
MaxRows == 2          \* rows of a sheet
MaxCols == 2          \* cells of a row
MaxCells == 100       \* cells of the one-column documents that are scored
MaxGrid == 45         \* rows, and cells a row, of the large sheets scored
MaxWrong == 4         \* wrong cells of a large sheet
MaxTolerance == 2     \* tolerance passed to compare_numeric, in hundredths
MaxColIndex == 702    \* column index of a CellRef that is formatted
MaxRowIndex == 10     \* row index of a CellRef that is formatted
MaxRefLen == 4        \* characters of a text that is parsed as a reference

\* grade_task_run's default tolerance 0.01, in hundredths
TolerancePercent == 1

\* the two modules that define grade_task_run: src/grader.py, which
\* episode_runner.py and mcp_server.py import, and src/evaluation/grader.py
GraderModules == {"grader", "evaluation.grader"}

\* task_def.get('mode', 'tool_use')
Modes == {"tool_use", "computer_use"}

FileNames == [i \in 1..(MaxFiles + 1) |->
                 CASE i = 1 -> "f1" [] i = 2 -> "f2" [] OTHER -> "f3"]
SheetName == "Sheet1"

\* a file of the run directory or of the oracle directory: absent, not
\* loadable as a spreadsheet, or a spreadsheet; sheets is what read_ods_data
\* returns for it, a sequence of [name, rows] in document order with a cell
\* a pair <<value, formula>>
MissingFile == [kind |-> "missing", sheets |-> <<>>]
CorruptFile == [kind |-> "corrupt", sheets |-> <<>>]
OdsFile(sheets) == [kind |-> "ods", sheets |-> sheets]

NoDisk == [task |-> [state |-> "unknown", expected_outputs |-> <<>>,
                     mode |-> "tool_use"],
           oracle |-> <<>>, output |-> <<>>]
NoGrade == [module |-> "none", result |-> [feedback |-> "not graded"]]

VARIABLES
    docker,     \* backend: container id -> [status, by, stops, kills, reqs]
    mgr,        \* SandboxManager objects: their fields
    timers,     \* threading.Timer objects: [state, m, armed_for]
    runner,     \* EpisodeRunner: [current_sandbox, current_run_dir]
    runs,       \* runs_dir: task id -> episode numbers of existing run dirs
    registry,   \* ContextRegistry: [contexts, default_context]
    env,        \* os.environ: [task_id, run_dir, container_id]
    disk,       \* one task's task.json and oracle files, one run directory
    graded,     \* the last grade_task_run call: [module, result]
    pc,         \* main thread: statement about to run
    stack,      \* main thread: return labels of the callers
    loc,        \* main thread: arguments and locals of the running call
    ret         \* outcome of the last finished top-level call

vars == <<docker, mgr, timers, runner, runs, registry, env, disk, graded,
          pc, stack, loc, ret>>

\* the files that grading reads and its last result
grading == <<disk, graded>>

\* what lives outside the managers and the runner object: the runs
\* directory, the context registry, the process environment and the files
host == <<runs, registry, env, grading>>

\* ------------------------------------------------------------ initial state
NoLoc == [op |-> "none", m |-> None, task |-> "", tmo |-> FALSE,
          cleanup |-> FALSE, err |-> FALSE, result |-> NoResult]
NoRet == [op |-> "none", outcome |-> "none", m |-> None, task |-> "",
          cid |-> None, key |-> "", result |-> NoResult, error |-> NoError]

NewMgr(kind) ==
    [made |-> kind, container |-> None, container_id |-> None,
     timeout_timer |-> None, timed_out |-> FALSE]

\* an EpisodeRunner after __init__: no manager constructed yet
InitEpisode ==
    /\ docker = [c \in Cids |-> NoContainer]
    /\ mgr = [m \in Mgrs |-> NewMgr("no")]
    /\ timers = [t \in Tids |-> NoTimer]
    /\ runner = [current_sandbox |-> None, current_run_dir |-> NoDir]
    /\ runs = [t \in TaskIds |-> {}]
    /\ registry = EmptyRegistry
    /\ env = NoEnv
    /\ disk = NoDisk
    /\ graded = NoGrade
    /\ pc = "idle"
    /\ stack = <<>>
    /\ loc = NoLoc
    /\ ret = NoRet

\* SandboxManager(): manager 1 after __init__, used directly
Init ==
    /\ docker = [c \in Cids |-> NoContainer]
    /\ mgr = [m \in Mgrs |-> IF m = 1 THEN NewMgr("api") ELSE NewMgr("no")]
    /\ timers = [t \in Tids |-> NoTimer]
    /\ runner = [current_sandbox |-> None, current_run_dir |-> NoDir]
    /\ runs = [t \in TaskIds |-> {}]
    /\ registry = EmptyRegistry
    /\ env = NoEnv
    /\ disk = NoDisk
    /\ graded = NoGrade
    /\ pc = "idle"
    /\ stack = <<>>
    /\ loc = NoLoc
    /\ ret = NoRet

\* ------------------------------------------------------------- allocation
Min(S) == CHOOSE x \in S : \A y \in S : x <= y
FreeCids == {c \in Cids : docker[c].status = "absent"}
FreeTids == {t \in Tids : timers[t].state = "unused"}
FreeMgrs == {m \in Mgrs : mgr[m].made = "no"}

\* ------------------------------------------------ main thread: call/return
\* the running function returns normally to its caller
Return(result) ==
    IF stack = <<>>
    THEN /\ pc' = "idle"
         /\ stack' = stack
         /\ ret' = [NoRet EXCEPT !.op = loc.op, !.outcome = "returned",
                                 !.m = loc.m, !.task = loc.task,
                                 !.result = result]
         /\ loc' = NoLoc
    ELSE /\ pc' = Head(stack)
         /\ stack' = Tail(stack)
         /\ loc' = loc
         /\ ret' = ret

\* an exception of type error leaves the running function and no caller on
\* the stack catches it: it reaches the caller of the top-level operation
RaiseAs(error) ==
    /\ pc' = "idle"
    /\ stack' = <<>>
    /\ ret' = [NoRet EXCEPT !.op = loc.op, !.outcome = "raised", !.m = loc.m,
                            !.task = loc.task, !.error = error]
    /\ loc' = NoLoc

\* the same for an exception whose type the caller does not look at
Raise == RaiseAs("Exception")

\* --------------------------------------------------------- Docker backend
\* Container.stop(): a running container exits; stopping a container that is
\* not running succeeds without effect; a removed container is not found.
\* A request the daemon fails (ok = FALSE) changes nothing.
StopOutcomes(c) == IF docker[c].status = "removed" THEN {FALSE} ELSE BOOLEAN

BackendStop(c, ok) ==
    [docker EXCEPT ![c].stops = @ + 1,
                   ![c].status = IF ok /\ @ = "running" THEN "exited" ELSE @]

\* Container.remove(): only a container that is not running can be removed
RemoveOutcomes(c) ==
    IF docker[c].status \in {"exited", "created"} THEN BOOLEAN ELSE {FALSE}

BackendRemove(c, ok) ==
    [docker EXCEPT ![c].status = IF ok THEN "removed" ELSE @]

\* Container.kill(): only a running container can be killed; every other
\* request is answered with an error
KillOutcomes(c) == IF docker[c].status = "running" THEN BOOLEAN ELSE {FALSE}

BackendKill(c, ok) ==
    [docker EXCEPT ![c].kills = @ + 1,
                   ![c].status = IF ok THEN "exited" ELSE @]

\* containers.run(detach=True): create, then start
BackendRun(c, m, started) ==
    [docker EXCEPT ![c] = [status |-> IF started THEN "running" ELSE "created",
                           by |-> m, stops |-> 0, kills |-> 0,
                           reqs |-> FALSE, removed_by |-> None]]

\* ------------------------------------------ SandboxManager.stop_container
\* Timer.cancel(): only a timer still waiting is stopped by it
TimerCancel(t) ==
    IF t # None /\ timers[t].state = "armed"
    THEN [timers EXCEPT ![t].state = "cancelled"]
    ELSE timers

\* stop_container without lines 193-195: the watchdog is left armed
StopCancelKeepsTimer(m) ==
    /\ IF mgr[m].container = None
       THEN Return(NoResult)
       ELSE /\ pc' = "st_stop"
            /\ loc' = [loc EXCEPT !.err = FALSE]
            /\ UNCHANGED <<stack, ret>>
    /\ UNCHANGED <<docker, mgr, timers, runner, host>>

\* lines 192-199: cancel the watchdog, return if there is no container
StopCancel(m) ==
    /\ timers' = TimerCancel(mgr[m].timeout_timer)
    /\ mgr' = [mgr EXCEPT ![m].timeout_timer = None]
    /\ IF mgr[m].container = None
       THEN Return(NoResult)
       ELSE /\ pc' = "st_stop"
            /\ loc' = [loc EXCEPT !.err = FALSE]
            /\ UNCHANGED <<stack, ret>>
    /\ UNCHANGED <<docker, runner, host>>

\* line 203: self.container.stop(timeout=timeout)
StopRequest(m) ==
    \E ok \in StopOutcomes(mgr[m].container) :
        /\ docker' = BackendStop(mgr[m].container, ok)
        /\ pc' = IF ok THEN "st_remove" ELSE "st_finally"
        /\ loc' = [loc EXCEPT !.err = ~ok]
        /\ UNCHANGED <<mgr, timers, runner, host, stack, ret>>

\* line 204: self.container.remove(); the backend's record of the container
\* keeps the manager whose request removed it
StopRemove(m) ==
    \E ok \in RemoveOutcomes(mgr[m].container) :
        /\ docker' = [BackendRemove(mgr[m].container, ok)
                         EXCEPT ![mgr[m].container].removed_by =
                                   IF ok THEN m ELSE @]
        /\ pc' = "st_finally"
        /\ loc' = [loc EXCEPT !.err = ~ok]
        /\ UNCHANGED <<mgr, timers, runner, host, stack, ret>>

\* StopFinally with the cleanup at the end of the try block instead of in
\* a finally clause: a failed backend request leaves the handle in place
StopFinallyInTry(m) ==
    /\ mgr' = IF loc.err THEN mgr
              ELSE [mgr EXCEPT ![m].container = None,
                               ![m].container_id = None,
                               ![m].timed_out = FALSE]
    /\ Return(NoResult)
    /\ UNCHANGED <<docker, timers, runner, host>>

\* lines 209-214: the DockerException is caught and logged, the finally
\* clause drops the handle, and the function returns
StopFinally(m) ==
    /\ mgr' = [mgr EXCEPT ![m].container = None,
                          ![m].container_id = None,
                          ![m].timed_out = FALSE]
    /\ Return(NoResult)
    /\ UNCHANGED <<docker, timers, runner, host>>

\* ----------------------------------------- SandboxManager.start_container
\* StartContainerEntry without the stop of the container already held
StartContainerEntryNoStop(m, callers) ==
    pc' = "sc_run" /\ stack' = callers

\* lines 74-76: a manager that holds a container stops it first
StartContainerEntry(m, callers) ==
    IF mgr[m].container # None
    THEN pc' = "st_cancel" /\ stack' = <<"sc_run">> \o callers
    ELSE pc' = "sc_run" /\ stack' = callers

\* lines 123-136: arm the watchdog of manager m
\* lines 133-135: armed_for is the container that the start_container call
\* which armed the timer had just created; the Timer object and its
\* handler hold no reference to it, only to the manager
ArmTimer(t, m, c) ==
    [timers EXCEPT ![t] = [state |-> "armed", m |-> m, armed_for |-> c]]

\* lines 78-142: image lookup, containers.run, handle fields, watchdog
StartRun(m) ==
    \/ \* line 81: images.get raises ImageNotFound, re-raised at line 84
       /\ Raise
       /\ UNCHANGED <<docker, mgr, timers, runner, host>>
    \/ \* line 117: containers.run raises after the container was created
       /\ docker' = BackendRun(Min(FreeCids), m, FALSE)
       /\ Raise
       /\ UNCHANGED <<mgr, timers, runner, host>>
    \/ \* lines 117-138
       LET c == Min(FreeCids)
           t == IF loc.tmo THEN Min(FreeTids) ELSE mgr[m].timeout_timer
       IN /\ docker' = BackendRun(c, m, TRUE)
          /\ mgr' = [mgr EXCEPT ![m].container = c,
                                ![m].container_id = c,
                                ![m].timeout_timer = t]
          /\ timers' = IF loc.tmo THEN ArmTimer(t, m, c) ELSE timers
          /\ Return(NoResult)
          /\ UNCHANGED <<runner, host>>

\* ------------------------------------------- watchdog thread of one Timer
\* threading.Timer.run: the wait ended and the timer was not cancelled
TimerExpire(t) ==
    /\ timers[t].state = "armed"
    /\ timers' = [timers EXCEPT ![t].state = "dispatched"]
    /\ UNCHANGED <<docker, mgr, runner, host, pc, stack, loc, ret>>

\* line 125: self.timed_out = True
HandlerSet(t) ==
    /\ timers[t].state = "dispatched"
    /\ mgr' = [mgr EXCEPT ![timers[t].m].timed_out = TRUE]
    /\ timers' = [timers EXCEPT ![t].state = "h_check"]
    /\ UNCHANGED <<docker, runner, host, pc, stack, loc, ret>>

\* line 126: if self.container is not None
HandlerCheck(t) ==
    /\ timers[t].state = "h_check"
    /\ timers' = [timers EXCEPT ![t].state =
                     IF mgr[timers[t].m].container # None
                     THEN "h_kill" ELSE "done"]
    /\ UNCHANGED <<docker, mgr, runner, host, pc, stack, loc, ret>>

\* lines 128-131: self.container.kill(), every exception caught and logged
\* (self.container is read again: it may be None or another container now)
HandlerKill(t) ==
    /\ timers[t].state = "h_kill"
    /\ timers' = [timers EXCEPT ![t].state = "done"]
    /\ LET c == mgr[timers[t].m].container
       IN IF c = None
          THEN docker' = docker
          ELSE \E ok \in KillOutcomes(c) : docker' = BackendKill(c, ok)
    /\ UNCHANGED <<mgr, runner, host, pc, stack, loc, ret>>

\* the whole of Timer.run and timeout_handler (lines 124-131) in one step:
\* the wait ends on a timer not cancelled, timed_out is set, and the
\* container held at that moment is killed
WatchdogFires(t) ==
    /\ timers[t].state = "armed"
    /\ timers' = [timers EXCEPT ![t].state = "done"]
    /\ mgr' = [mgr EXCEPT ![timers[t].m].timed_out = TRUE]
    /\ LET c == mgr[timers[t].m].container
       IN IF c = None
          THEN docker' = docker
          ELSE \E ok \in KillOutcomes(c) : docker' = BackendKill(c, ok)
    /\ UNCHANGED <<runner, host, pc, stack, loc, ret>>

\* -------------------------------------------- direct use of a manager
CallStartContainer(m, tmo) ==
    /\ pc = "idle"
    /\ mgr[m].made # "no"
    /\ FreeCids # {}
    /\ tmo => FreeTids # {}
    /\ loc' = [NoLoc EXCEPT !.op = "start_container", !.m = m, !.tmo = tmo]
    /\ ret' = NoRet
    /\ StartContainerEntry(m, <<>>)
    /\ UNCHANGED <<docker, mgr, timers, runner, host>>

CallStopContainer(m) ==
    /\ pc = "idle"
    /\ mgr[m].made # "no"
    /\ loc' = [NoLoc EXCEPT !.op = "stop_container", !.m = m]
    /\ ret' = NoRet
    /\ pc' = "st_cancel"
    /\ UNCHANGED <<docker, mgr, timers, runner, host, stack>>

\* ------------------------- commands, file transfer, probe and reconnect
\* execute_command, copy_files_to_container, extract_files_from_container
ManagerOps == {"execute_command", "copy_files_to_container",
               "extract_files_from_container"}

\* the error of lines 151, 314 and 340
NotRunningError == "RuntimeError: No container running"

\* exec_run needs a running container, get_archive and put_archive one that
\* exists; the daemon may fail any request
RequestOutcomes(c, op) ==
    IF \/ docker[c].status \in {"absent", "removed"}
       \/ op = "execute_command" /\ docker[c].status # "running"
    THEN {FALSE} ELSE BOOLEAN

\* the error a failed request ends in: APIError re-raised (line 183) or
\* passed on (line 333), RuntimeError at line 372
RequestError(op) ==
    IF op = "extract_files_from_container"
    THEN "RuntimeError: Could not extract" ELSE "APIError"

\* CallManagerOp where a manager without a handle does nothing and returns
CallManagerOpSilent(m, op) ==
    /\ pc = "idle"
    /\ mgr[m].made # "no"
    /\ IF mgr[m].container = None
       THEN /\ ret' = [NoRet EXCEPT !.op = op, !.outcome = "returned", !.m = m]
            /\ docker' = docker
       ELSE \E ok \in RequestOutcomes(mgr[m].container, op) :
               /\ docker' = [docker EXCEPT ![mgr[m].container].reqs = TRUE]
               /\ ret' = [NoRet EXCEPT !.op = op, !.m = m,
                             !.outcome = IF ok THEN "returned" ELSE "raised",
                             !.error = IF ok THEN NoError ELSE RequestError(op)]
    /\ UNCHANGED <<mgr, timers, runner, host, pc, stack, loc>>

\* lines 144-183, 311-335, 337-374: without a handle the not-running error
\* is raised before anything is sent; otherwise the request goes to the
\* held container and its failure is raised to the caller; a host file
\* missing (line 321) ends copy_files_to_container before its request
CallManagerOp(m, op) ==
    /\ pc = "idle"
    /\ mgr[m].made # "no"
    /\ IF mgr[m].container = None
       THEN /\ ret' = [NoRet EXCEPT !.op = op, !.outcome = "raised", !.m = m,
                                    !.error = NotRunningError]
            /\ docker' = docker
       ELSE \/ \E ok \in RequestOutcomes(mgr[m].container, op) :
                  /\ docker' = [docker EXCEPT ![mgr[m].container].reqs = TRUE]
                  /\ ret' = [NoRet EXCEPT !.op = op, !.m = m,
                                !.outcome = IF ok THEN "returned" ELSE "raised",
                                !.error = IF ok THEN NoError
                                          ELSE RequestError(op)]
            \/ /\ op = "copy_files_to_container"
               /\ docker' = docker
               /\ ret' = [NoRet EXCEPT !.op = op, !.outcome = "raised",
                                       !.m = m, !.error = "FileNotFoundError"]
    /\ UNCHANGED <<mgr, timers, runner, host, pc, stack, loc>>

\* the container paths a caller asks for, and the bytes read for one
Paths == {"p1", "p2"}
PathLists == UNION {[1..n -> Paths] : n \in 0..MaxPaths}
Contents(path) == [bytes_of |-> path]

\* the part of the result of an extract_files_from_container call that
\* tells what it was asked and what it did: the paths, whether the archive
\* of each could be fetched and unpacked, and the paths it requested
Extraction(file_paths, readable, attempted) ==
    [file_paths |-> file_paths, readable |-> readable,
     attempted |-> attempted]

\* CallExtractFiles where a path that cannot be read is skipped: every
\* path is requested and the files that could be read are returned
CallExtractFilesSkipping(m, file_paths) ==
    /\ pc = "idle"
    /\ mgr[m].made # "no"
    /\ IF mgr[m].container = None
       THEN /\ ret' = [NoRet EXCEPT
                         !.op = "extract_files_from_container",
                         !.outcome = "raised", !.m = m,
                         !.error = NotRunningError]
                      @@ Extraction(file_paths, <<>>, <<>>)
            /\ docker' = docker
       ELSE \E readable \in
                 [1..Len(file_paths) ->
                     RequestOutcomes(mgr[m].container,
                                     "extract_files_from_container")] :
               /\ docker' = [docker EXCEPT ![mgr[m].container].reqs =
                                               @ \/ file_paths # <<>>]
               /\ ret' = [NoRet EXCEPT
                            !.op = "extract_files_from_container",
                            !.outcome = "returned", !.m = m,
                            !.result =
                               [path \in {file_paths[i] :
                                            i \in {j \in 1..Len(file_paths) :
                                                      readable[j]}}
                                   |-> Contents(path)]]
                         @@ Extraction(file_paths, readable, file_paths)
    /\ UNCHANGED <<mgr, timers, runner, host, pc, stack, loc>>

\* extract_files_from_container lines 337-374: without a handle the
\* not-running error is raised before anything is sent; otherwise the
\* archive of each path is requested in turn and unpacked into the dict,
\* and the first path for which that fails ends the call with the
\* RuntimeError of line 372
CallExtractFiles(m, file_paths) ==
    /\ pc = "idle"
    /\ mgr[m].made # "no"
    /\ IF mgr[m].container = None
       THEN /\ ret' = [NoRet EXCEPT
                         !.op = "extract_files_from_container",
                         !.outcome = "raised", !.m = m,
                         !.error = NotRunningError]
                      @@ Extraction(file_paths, <<>>, <<>>)
            /\ docker' = docker
       ELSE \E readable \in
                 [1..Len(file_paths) ->
                     RequestOutcomes(mgr[m].container,
                                     "extract_files_from_container")] :
               LET failed == {i \in 1..Len(file_paths) : ~readable[i]}
                   last == IF failed = {} THEN Len(file_paths)
                           ELSE Min(failed)
               IN /\ docker' = [docker EXCEPT ![mgr[m].container].reqs =
                                                  @ \/ last > 0]
                  /\ ret' =
                       IF failed = {}
                       THEN [NoRet EXCEPT
                               !.op = "extract_files_from_container",
                               !.outcome = "returned", !.m = m,
                               !.result =
                                  [path \in {file_paths[i] :
                                               i \in 1..Len(file_paths)}
                                      |-> Contents(path)]]
                            @@ Extraction(file_paths, readable, file_paths)
                       ELSE [NoRet EXCEPT
                               !.op = "extract_files_from_container",
                               !.outcome = "raised", !.m = m,
                               !.error = RequestError(
                                   "extract_files_from_container")]
                            @@ Extraction(file_paths, readable,
                                          SubSeq(file_paths, 1, last))
    /\ UNCHANGED <<mgr, timers, runner, host, pc, stack, loc>>

\* Container.reload(): fails for a container that is gone, and whenever the
\* daemon fails the request
ReloadOutcomes(c) ==
    IF docker[c].status \in {"absent", "removed"} THEN {FALSE} ELSE BOOLEAN

\* CallIsRunning without the except clause of lines 224-225
CallIsRunningNoCatch(m) ==
    /\ pc = "idle"
    /\ mgr[m].made # "no"
    /\ IF mgr[m].container = None
       THEN ret' = [NoRet EXCEPT !.op = "is_running", !.m = m,
                                !.outcome = "returned", !.result = "False"]
       ELSE \E ok \in ReloadOutcomes(mgr[m].container) :
               ret' = [NoRet EXCEPT
                         !.op = "is_running", !.m = m,
                         !.outcome = IF ok THEN "returned" ELSE "raised",
                         !.error = IF ok THEN NoError ELSE "DockerException",
                         !.result = IF ~ok THEN NoResult
                                    ELSE IF docker[mgr[m].container].status
                                            = "running"
                                    THEN "True" ELSE "False"]
    /\ UNCHANGED <<docker, mgr, timers, runner, host, pc, stack, loc>>

\* lines 216-225: False without a handle, False when reload() fails, else
\* whether the reloaded status is "running"
CallIsRunning(m) ==
    /\ pc = "idle"
    /\ mgr[m].made # "no"
    /\ IF mgr[m].container = None
       THEN ret' = [NoRet EXCEPT !.op = "is_running", !.m = m,
                                !.outcome = "returned", !.result = "False"]
       ELSE \E ok \in ReloadOutcomes(mgr[m].container) :
               ret' = [NoRet EXCEPT
                         !.op = "is_running", !.m = m,
                         !.outcome = "returned",
                         !.result = IF ok /\ docker[mgr[m].container].status
                                              = "running"
                                    THEN "True" ELSE "False"]
    /\ UNCHANGED <<docker, mgr, timers, runner, host, pc, stack, loc>>

\* containers.get(id): fails for an id that names no container, and
\* whenever the daemon fails the request
GetOutcomes(id) ==
    IF docker[id].status \in {"absent", "removed"} THEN {FALSE} ELSE BOOLEAN

\* the error of line 249
ReconnectError == "RuntimeError: Could not reconnect"

\* the handle fields after lines 238-239 on manager m
Reconnected(m, id) ==
    [mgr EXCEPT ![m].container = id, ![m].container_id = id]

\* lines 227-249: a failed containers.get is raised as RuntimeError and
\* leaves the fields as they were; a container that was found becomes the
\* handle, and one that is not running is only logged (lines 242-243)
CallReconnect(m, id) ==
    /\ pc = "idle"
    /\ mgr[m].made # "no"
    /\ docker[id].stops < MaxStops
    /\ \E ok \in GetOutcomes(id) :
          /\ mgr' = IF ok THEN Reconnected(m, id) ELSE mgr
          /\ ret' = [NoRet EXCEPT
                       !.op = "reconnect_to_container", !.m = m, !.cid = id,
                       !.outcome = IF ok THEN "returned" ELSE "raised",
                       !.error = IF ok THEN NoError ELSE ReconnectError]
    /\ UNCHANGED <<docker, timers, runner, host, pc, stack, loc>>

\* ------------------------------------------ ContextRegistry, get_context
\* ContextRegistry.get lines 83-93: the context a key resolves to, NoCtx
\* where get raises
LookupIn(reg, k) ==
    IF k = NoKey THEN reg.default_context ELSE reg.contexts[k]

Lookup(k) == LookupIn(registry, k)

\* the registry's own error, lines 85-88 and 92
NoContextError(k) ==
    IF k = NoKey THEN "RuntimeError: No episode context set"
    ELSE "RuntimeError: Session not found"

\* ContextRegistry.register lines 73-77
Register(ctx, k) ==
    IF k = NoKey
    THEN [contexts |-> [registry.contexts EXCEPT !["default"] = ctx],
          default_context |-> ctx]
    ELSE [registry EXCEPT !.contexts[k] = ctx]

\* Clear emptying the whole map instead of popping one key
ClearAll(k) ==
    [contexts |-> [j \in SessionIds |-> NoCtx],
     default_context |-> IF k = NoKey THEN NoCtx
                         ELSE registry.default_context]

\* ContextRegistry.clear lines 97-103
Clear(k) ==
    IF k = NoKey
    THEN [contexts |-> [registry.contexts EXCEPT !["default"] = NoCtx],
          default_context |-> NoCtx]
    ELSE [registry EXCEPT !.contexts[k] = NoCtx]

\* get_context line 131: all three environment values are set and not empty
EnvComplete ==
    /\ env.task_id # ""
    /\ env.run_dir # NoDir
    /\ env.container_id # None

\* the EpisodeContext of lines 146-151 around manager m
EnvContext(m) ==
    [task_id |-> env.task_id, run_dir |-> env.run_dir, sandbox_manager |-> m]

\* the end of a get_context call that raises error
GetContextRaises(k, error) ==
    /\ ret' = [NoRet EXCEPT !.op = "get_context", !.key = k,
                            !.outcome = "raised", !.error = error]
    /\ UNCHANGED <<docker, mgr, timers, runner, host, pc, stack, loc>>

\* GetContext without the set_context of line 154
GetContextNoRegister(k) ==
    /\ pc = "idle"
    /\ IF Lookup(k) # NoCtx
       THEN /\ ret' = [NoRet EXCEPT !.op = "get_context", !.key = k,
                                    !.outcome = "returned",
                                    !.m = Lookup(k).sandbox_manager,
                                    !.result = "registry"]
            /\ UNCHANGED <<docker, mgr, timers, runner, host,
                           pc, stack, loc>>
       ELSE IF ~EnvComplete
            THEN GetContextRaises(k, NoContextError(k))
            ELSE /\ env.task_id \in KnownTasks
                 /\ FreeMgrs # {}
                 /\ TRUE \in GetOutcomes(env.container_id)
                 /\ LET m == Min(FreeMgrs)
                    IN /\ mgr' = [mgr EXCEPT ![m] =
                                     [NewMgr("api") EXCEPT
                                        !.container = env.container_id,
                                        !.container_id = env.container_id]]
                       /\ ret' = [NoRet EXCEPT
                                    !.op = "get_context", !.key = k,
                                    !.outcome = "returned", !.m = m,
                                    !.result = "environment"]
                 /\ runs' = [runs EXCEPT ![env.run_dir.task] =
                                            @ \cup {env.run_dir.num}]
                 /\ UNCHANGED <<docker, timers, runner, registry, env, grading,
                                pc, stack, loc>>

\* get_context lines 116-159.  A hit returns the registered context.  On a
\* miss with an incomplete environment the registry's error is re-raised
\* (line 159).  Otherwise: load_task (line 139), the SandboxManager
\* constructor (line 142: it makes the workspace directory and connects to
\* Docker), reconnect_to_container (line 143), EpisodeContext, set_context
\* and return; each of the first three can raise, and a manager that was
\* constructed but not registered is unreachable and not kept
GetContext(k) ==
    /\ pc = "idle"
    /\ IF Lookup(k) # NoCtx
       THEN /\ ret' = [NoRet EXCEPT !.op = "get_context", !.key = k,
                                    !.outcome = "returned",
                                    !.m = Lookup(k).sandbox_manager,
                                    !.result = "registry"]
            /\ UNCHANGED <<docker, mgr, timers, runner, host,
                           pc, stack, loc>>
       ELSE IF ~EnvComplete
            THEN GetContextRaises(k, NoContextError(k))
            ELSE \/ /\ env.task_id \notin KnownTasks
                    /\ GetContextRaises(k, "FileNotFoundError")
                 \/ \* workspace_path.mkdir: the parent directory is missing
                    /\ env.task_id \in KnownTasks
                    /\ env.run_dir.num \notin runs[env.run_dir.task]
                    /\ GetContextRaises(k, "FileNotFoundError")
                 \/ \* docker.from_env fails after the mkdir
                    /\ env.task_id \in KnownTasks
                    /\ runs' = [runs EXCEPT ![env.run_dir.task] =
                                               @ \cup {env.run_dir.num}]
                    /\ ret' = [NoRet EXCEPT
                                 !.op = "get_context", !.key = k,
                                 !.outcome = "raised",
                                 !.error = "RuntimeError: Cannot connect"]
                    /\ UNCHANGED <<docker, mgr, timers, runner, registry,
                                   env, grading, pc, stack, loc>>
                 \/ \* containers.get fails inside reconnect_to_container
                    /\ env.task_id \in KnownTasks
                    /\ FALSE \in GetOutcomes(env.container_id)
                    /\ runs' = [runs EXCEPT ![env.run_dir.task] =
                                               @ \cup {env.run_dir.num}]
                    /\ ret' = [NoRet EXCEPT
                                 !.op = "get_context", !.key = k,
                                 !.outcome = "raised",
                                 !.error = ReconnectError]
                    /\ UNCHANGED <<docker, mgr, timers, runner, registry,
                                   env, grading, pc, stack, loc>>
                 \/ \* lines 139-156 all succeed
                    /\ env.task_id \in KnownTasks
                    /\ FreeMgrs # {}
                    /\ TRUE \in GetOutcomes(env.container_id)
                    /\ LET m == Min(FreeMgrs)
                       IN /\ mgr' = [mgr EXCEPT ![m] =
                                        [NewMgr("api") EXCEPT
                                           !.container = env.container_id,
                                           !.container_id = env.container_id]]
                          /\ registry' = Register(EnvContext(m), k)
                          /\ ret' = [NoRet EXCEPT
                                       !.op = "get_context", !.key = k,
                                       !.outcome = "returned", !.m = m,
                                       !.result = "environment"]
                    /\ runs' = [runs EXCEPT ![env.run_dir.task] =
                                               @ \cup {env.run_dir.num}]
                    /\ UNCHANGED <<docker, timers, runner, env, grading,
                                   pc, stack, loc>>

\* clear_context lines 167-169
ClearContext(k) ==
    /\ pc = "idle"
    /\ registry' = Clear(k)
    /\ ret' = [NoRet EXCEPT !.op = "clear_context", !.key = k,
                            !.outcome = "returned"]
    /\ UNCHANGED <<docker, mgr, timers, runner, runs, env, grading,
                   pc, stack, loc>>

\* the EpisodeContext objects a caller of set_context can hold: the
\* constructor (lines 58-61) accepts only an existing run directory, and the
\* manager is one that was constructed
CallerContexts ==
    {c \in [task_id : KnownTasks,
            run_dir : [task : KnownTasks, num : 1..MaxRuns],
            sandbox_manager : Mgrs] :
        /\ c.run_dir.task = c.task_id
        /\ c.run_dir.num \in runs[c.task_id]
        /\ mgr[c.sandbox_manager].made # "no"}

\* set_context lines 162-164
SetContext(ctx, k) ==
    /\ pc = "idle"
    /\ ctx \in CallerContexts
    /\ registry' = Register(ctx, k)
    /\ ret' = [NoRet EXCEPT !.op = "set_context", !.key = k,
                            !.outcome = "returned",
                            !.m = ctx.sandbox_manager, !.task = ctx.task_id]
    /\ UNCHANGED <<docker, mgr, timers, runner, runs, env, grading,
                   pc, stack, loc>>

\* has_context lines 172-174 with ContextRegistry.has_context lines 107-109
HasContextIn(reg, k) ==
    IF k = NoKey THEN reg.default_context # NoCtx
    ELSE reg.contexts[k] # NoCtx

HasContext(k) ==
    /\ pc = "idle"
    /\ ret' = [NoRet EXCEPT !.op = "has_context", !.key = k,
                            !.outcome = "returned",
                            !.result = IF HasContextIn(registry, k)
                                       THEN "True" ELSE "False"]
    /\ UNCHANGED <<docker, mgr, timers, runner, host, pc, stack, loc>>

\* ------------------------------------------------------- EpisodeRunner
\* setup_episode line 59: one more than the number of existing run dirs
NextEpisodeNum(task) == Cardinality(runs[task]) + 1

\* EndEpisodeEntry where an internal grading error escapes grade_task_run
\* and leaves end_episode before the sandbox cleanup
EndEpisodeEntryGradeRaises(op, grade, cleanup, callers) ==
    IF runner.current_sandbox = None
    THEN /\ loc' = [NoLoc EXCEPT !.op = op, !.m = loc.m]
         /\ IF callers = <<>>
            THEN /\ pc' = "idle"
                 /\ stack' = <<>>
                 /\ ret' = [NoRet EXCEPT !.op = op, !.outcome = "returned"]
            ELSE /\ pc' = Head(callers)
                 /\ stack' = Tail(callers)
                 /\ ret' = NoRet
    ELSE \E g \in (IF grade /\ runner.current_run_dir # NoDir
                   THEN GradeOutcomes ELSE {NoResult}) :
            IF g = "error"
            THEN /\ pc' = "idle"
                 /\ stack' = <<>>
                 /\ loc' = NoLoc
                 /\ ret' = [NoRet EXCEPT !.op = op, !.outcome = "raised",
                                         !.m = runner.current_sandbox]
            ELSE /\ loc' = [NoLoc EXCEPT !.op = op,
                                         !.m = runner.current_sandbox,
                                         !.cleanup = cleanup, !.result = g]
                 /\ pc' = "st_cancel"
                 /\ stack' = <<"ee_after">> \o callers
                 /\ ret' = NoRet

\* EndEpisodeEntry where a call without an active episode is an error
EndEpisodeEntryNoEpisodeRaises(op, grade, cleanup, callers) ==
    IF runner.current_sandbox = None
    THEN /\ pc' = "idle"
         /\ stack' = <<>>
         /\ loc' = NoLoc
         /\ ret' = [NoRet EXCEPT !.op = op, !.outcome = "raised",
                                 !.error = "RuntimeError"]
    ELSE /\ \E g \in (IF grade /\ runner.current_run_dir # NoDir
                      THEN GradeOutcomes ELSE {NoResult}) :
                loc' = [NoLoc EXCEPT !.op = op, !.m = runner.current_sandbox,
                                     !.cleanup = cleanup, !.result = g]
         /\ pc' = "st_cancel"
         /\ stack' = <<"ee_after">> \o callers
         /\ ret' = NoRet

\* end_episode lines 126-142: no-op without a current sandbox; otherwise
\* grade if asked (grade_task_run returns a result on every path) and call
\* current_sandbox.cleanup(), which is stop_container
EndEpisodeEntry(op, grade, cleanup, callers) ==
    IF runner.current_sandbox = None
    THEN /\ loc' = [NoLoc EXCEPT !.op = op, !.m = loc.m]
         /\ IF callers = <<>>
            THEN /\ pc' = "idle"
                 /\ stack' = <<>>
                 /\ ret' = [NoRet EXCEPT !.op = op, !.outcome = "returned"]
            ELSE /\ pc' = Head(callers)
                 /\ stack' = Tail(callers)
                 /\ ret' = NoRet
    ELSE /\ \E g \in (IF grade /\ runner.current_run_dir # NoDir
                      THEN GradeOutcomes ELSE {NoResult}) :
                loc' = [NoLoc EXCEPT !.op = op, !.m = runner.current_sandbox,
                                     !.cleanup = cleanup, !.result = g]
         /\ pc' = "st_cancel"
         /\ stack' = <<"ee_after">> \o callers
         /\ ret' = NoRet

\* setup_episode lines 56-62: the run directory numbered NextEpisodeNum is
\* made (mkdir with exist_ok, so an existing one is taken over as it is)
MakeRunDir(task) ==
    runs' = [runs EXCEPT ![task] = @ \cup {NextEpisodeNum(task)}]

\* StartEpisodeEntry with the run directory made before the task is loaded
StartEpisodeEntryMkdirFirst(op, task, tmo, callers) ==
    \/ \* load_task raises FileNotFoundError, the run dir exists already
       /\ task \notin KnownTasks
       /\ NextEpisodeNum(task) <= MaxRuns
       /\ MakeRunDir(task)
       /\ ret' = [NoRet EXCEPT !.op = op, !.outcome = "raised",
                               !.task = task, !.error = "FileNotFoundError"]
       /\ UNCHANGED <<docker, mgr, timers, runner, registry, env, grading,
                      pc, stack, loc>>
    \/ \* line 70: copying an initial file raises, the run dir exists
       /\ task \in KnownTasks
       /\ NextEpisodeNum(task) <= MaxRuns
       /\ MakeRunDir(task)
       /\ ret' = [NoRet EXCEPT !.op = op, !.outcome = "raised",
                               !.task = task, !.error = "OSError"]
       /\ UNCHANGED <<docker, mgr, timers, runner, registry, env, grading,
                      pc, stack, loc>>
    \/ \* sandbox_manager.py line 33: no Docker daemon, the constructor raises
       /\ task \in KnownTasks
       /\ NextEpisodeNum(task) <= MaxRuns
       /\ MakeRunDir(task)
       /\ runner' = [runner EXCEPT !.current_run_dir =
                        [task |-> task, num |-> NextEpisodeNum(task)]]
       /\ ret' = [NoRet EXCEPT !.op = op, !.outcome = "raised",
                               !.task = task, !.error = "RuntimeError"]
       /\ UNCHANGED <<docker, mgr, timers, registry, env, grading,
                      pc, stack, loc>>
    \/ \* lines 92-105: run dir set up, manager constructed, start_container
       /\ task \in KnownTasks
       /\ NextEpisodeNum(task) <= MaxRuns
       /\ FreeMgrs # {}
       /\ FreeCids # {}
       /\ tmo => FreeTids # {}
       /\ MakeRunDir(task)
       /\ runner' = [runner EXCEPT !.current_run_dir =
                        [task |-> task, num |-> NextEpisodeNum(task)]]
       /\ mgr' = [mgr EXCEPT ![Min(FreeMgrs)] = NewMgr("runner")]
       /\ loc' = [NoLoc EXCEPT !.op = op, !.m = Min(FreeMgrs),
                               !.task = task, !.tmo = tmo]
       /\ ret' = NoRet
       /\ pc' = "sc_run"
       /\ stack' = <<"se_done">> \o callers
       /\ UNCHANGED <<docker, timers, registry, env, grading>>

\* start_episode lines 92-108 with setup_episode lines 53-74 and the
\* SandboxManager constructor: everything before start_container
StartEpisodeEntry(op, task, tmo, callers) ==
    \/ \* line 53: load_task raises FileNotFoundError, nothing was created
       /\ task \notin KnownTasks
       /\ ret' = [NoRet EXCEPT !.op = op, !.outcome = "raised",
                               !.task = task, !.error = "FileNotFoundError"]
       /\ UNCHANGED <<docker, mgr, timers, runner, host, pc, stack, loc>>
    \/ \* line 70: copying an initial file raises, the run dir exists
       /\ task \in KnownTasks
       /\ NextEpisodeNum(task) <= MaxRuns
       /\ MakeRunDir(task)
       /\ ret' = [NoRet EXCEPT !.op = op, !.outcome = "raised",
                               !.task = task, !.error = "OSError"]
       /\ UNCHANGED <<docker, mgr, timers, runner, registry, env, grading,
                      pc, stack, loc>>
    \/ \* sandbox_manager.py line 33: no Docker daemon, the constructor raises
       /\ task \in KnownTasks
       /\ NextEpisodeNum(task) <= MaxRuns
       /\ MakeRunDir(task)
       /\ runner' = [runner EXCEPT !.current_run_dir =
                        [task |-> task, num |-> NextEpisodeNum(task)]]
       /\ ret' = [NoRet EXCEPT !.op = op, !.outcome = "raised",
                               !.task = task, !.error = "RuntimeError"]
       /\ UNCHANGED <<docker, mgr, timers, registry, env, grading,
                      pc, stack, loc>>
    \/ \* lines 92-105: run dir set up, manager constructed, start_container
       /\ task \in KnownTasks
       /\ NextEpisodeNum(task) <= MaxRuns
       /\ FreeMgrs # {}
       /\ FreeCids # {}
       /\ tmo => FreeTids # {}
       /\ MakeRunDir(task)
       /\ runner' = [runner EXCEPT !.current_run_dir =
                        [task |-> task, num |-> NextEpisodeNum(task)]]
       /\ mgr' = [mgr EXCEPT ![Min(FreeMgrs)] = NewMgr("runner")]
       /\ loc' = [NoLoc EXCEPT !.op = op, !.m = Min(FreeMgrs),
                               !.task = task, !.tmo = tmo]
       /\ ret' = NoRet
       /\ pc' = "sc_run"
       /\ stack' = <<"se_done">> \o callers
       /\ UNCHANGED <<docker, timers, registry, env, grading>>

\* start_episode lines 110-113
StartEpisodeDone ==
    /\ runner' = [runner EXCEPT !.current_sandbox = loc.m]
    /\ Return(NoResult)
    /\ UNCHANGED <<docker, mgr, timers, host>>

\* EndEpisodeAfter without the rmtree of lines 146-150
EndEpisodeAfterNoDelete ==
    /\ runner' = [runner EXCEPT !.current_sandbox = None]
    /\ Return(loc.result)
    /\ UNCHANGED <<docker, mgr, timers, host>>

\* end_episode lines 143-152
EndEpisodeAfter ==
    /\ runner' = [runner EXCEPT !.current_sandbox = None]
    /\ runs' = IF loc.cleanup /\ runner.current_run_dir # NoDir
               THEN [runs EXCEPT ![runner.current_run_dir.task] =
                                     @ \ {runner.current_run_dir.num}]
               ELSE runs
    /\ Return(loc.result)
    /\ UNCHANGED <<docker, mgr, timers, registry, env, grading>>

\* RunCallback whose except clause re-raises without ending the episode
RunCallbackNoEnd ==
    \/ /\ EndEpisodeEntry("run_episode", TRUE, FALSE, <<"re_ret">>)
       /\ UNCHANGED <<docker, mgr, timers, runner, host>>
    \/ /\ pc' = "re_raise"
       /\ UNCHANGED <<docker, mgr, timers, runner, host, stack, loc, ret>>

\* run_episode line 174: the agent callback returns or raises; lines 177
\* and 182: end_episode(grade=True), or end_episode(grade=False) in the
\* except clause
RunCallback ==
    \/ /\ EndEpisodeEntry("run_episode", TRUE, FALSE, <<"re_ret">>)
       /\ UNCHANGED <<docker, mgr, timers, runner, host>>
    \/ /\ EndEpisodeEntry("run_episode", FALSE, FALSE, <<"re_raise">>)
       /\ UNCHANGED <<docker, mgr, timers, runner, host>>

\* run_episode line 178: return result
RunReturn ==
    /\ Return(loc.result)
    /\ UNCHANGED <<docker, mgr, timers, runner, host>>

\* run_episode line 183: raise
RunReraise ==
    /\ Raise
    /\ UNCHANGED <<docker, mgr, timers, runner, host>>

CallStartEpisode(task, tmo) ==
    /\ pc = "idle"
    /\ StartEpisodeEntry("start_episode", task, tmo, <<>>)

CallEndEpisode(grade, cleanup) ==
    /\ pc = "idle"
    /\ EndEpisodeEntry("end_episode", grade, cleanup, <<>>)
    /\ UNCHANGED <<docker, mgr, timers, runner, host>>

\* run_episode line 169: start_episode(task_id) with the task's time limit
CallRunEpisode(task) ==
    /\ pc = "idle"
    /\ StartEpisodeEntry("run_episode", task, TRUE, <<"re_cb">>)

\* ---------------------------------------------------------- episode_api
\* episode_api.start_episode line 35: the singleton runner's start_episode
\* with the task's time limit
ApiStartEpisode(task) ==
    /\ pc = "idle"
    /\ StartEpisodeEntry("api_start_episode", task, TRUE, <<"as_set">>)

\* the EpisodeContext of episode_api.py lines 37-42
ApiContext ==
    [task_id |-> loc.task, run_dir |-> runner.current_run_dir,
     sandbox_manager |-> loc.m]

\* episode_api.start_episode lines 37-52: the EpisodeContext constructor
\* raises ValueError for a run directory that does not exist; set_context
\* registers the keyless default; building the returned dict raises
\* KeyError for a task.json without a description
ApiSetContext ==
    /\ IF ApiContext.run_dir.num \notin runs[ApiContext.run_dir.task]
       THEN /\ RaiseAs("ValueError")
            /\ registry' = registry
       ELSE /\ registry' = Register(ApiContext, NoKey)
            /\ \/ Return("started")
               \/ RaiseAs("KeyError")
    /\ UNCHANGED <<docker, mgr, timers, runner, runs, env, grading>>

\* episode_api.end_episode line 58
ApiEndEpisode(grade, cleanup) ==
    /\ pc = "idle"
    /\ EndEpisodeEntry("api_end_episode", grade, cleanup, <<"ae_clear">>)
    /\ UNCHANGED <<docker, mgr, timers, runner, host>>

\* ApiClearContext where end_episode returns without clear_context
ApiClearContextNoClear ==
    /\ Return(loc.result)
    /\ UNCHANGED <<docker, mgr, timers, runner, host>>

\* episode_api.end_episode lines 59-60
ApiClearContext ==
    /\ registry' = Clear(NoKey)
    /\ Return(loc.result)
    /\ UNCHANGED <<docker, mgr, timers, runner, runs, env, grading>>

\* the main thread's next statement inside episode_api or the runner
ApiStep ==
    \/ pc = "se_done" /\ StartEpisodeDone
    \/ pc = "as_set" /\ ApiSetContext
    \/ pc = "ee_after" /\ EndEpisodeAfter
    \/ pc = "ae_clear" /\ ApiClearContext

RunnerStep ==
    \/ pc = "se_done" /\ StartEpisodeDone
    \/ pc = "ee_after" /\ EndEpisodeAfter
    \/ pc = "re_cb" /\ RunCallback
    \/ pc = "re_ret" /\ RunReturn
    \/ pc = "re_raise" /\ RunReraise

\* the main thread's next statement inside a manager
ManagerStep ==
    \/ pc = "st_cancel" /\ StopCancel(loc.m)
    \/ pc = "st_stop" /\ StopRequest(loc.m)
    \/ pc = "st_remove" /\ StopRemove(loc.m)
    \/ pc = "st_finally" /\ StopFinally(loc.m)
    \/ pc = "sc_run" /\ StartRun(loc.m)

WatchdogStep ==
    \E t \in Tids :
        \/ TimerExpire(t)
        \/ HandlerSet(t)
        \/ HandlerCheck(t)
        \/ HandlerKill(t)

\* ---------------------------------------------------------------- CellRef
\* a text is a sequence of characters
Letters == <<"A", "B", "C", "D", "E", "F", "G", "H", "I", "J", "K", "L", "M",
             "N", "O", "P", "Q", "R", "S", "T", "U", "V", "W", "X", "Y", "Z">>
LowerLetters ==
    <<"a", "b", "c", "d", "e", "f", "g", "h", "i", "j", "k", "l", "m",
      "n", "o", "p", "q", "r", "s", "t", "u", "v", "w", "x", "y", "z">>
Digits == <<"0", "1", "2", "3", "4", "5", "6", "7", "8", "9">>

Range(seq) == {seq[i] : i \in 1..Len(seq)}
IndexIn(seq, c) == CHOOSE i \in 1..Len(seq) : seq[i] = c

\* c.isalpha(), c.isdigit(), str.upper() on these characters
IsAlpha(c) == c \in Range(Letters) \cup Range(LowerLetters)
IsDigit(c) == c \in Range(Digits)
Upper(c) == IF c \in Range(LowerLetters)
            THEN Letters[IndexIn(LowerLetters, c)] ELSE c

\* ord(char) - ord('A') + 1 of an upper-case letter, and chr(65 + k)
LetterNum(char) == IndexIn(Letters, char)
Chr65(k) == Letters[k + 1]

RECURSIVE Pow(_, _)
Pow(b, i) == IF i = 0 THEN 1 ELSE b * Pow(b, i - 1)

Reversed(seq) == [i \in 1..Len(seq) |-> seq[Len(seq) + 1 - i]]

\* int(text) of a text of digits, and str(n)
RECURSIVE IntOf(_)
IntOf(digits) ==
    IF digits = <<>> THEN 0
    ELSE 10 * IntOf(SubSeq(digits, 1, Len(digits) - 1))
            + (IndexIn(Digits, digits[Len(digits)]) - 1)

RECURSIVE StrOf(_)
StrOf(n) ==
    IF n < 0 THEN <<"-">> \o StrOf(-n)
    ELSE IF n < 10 THEN <<Digits[n + 1]>>
    ELSE StrOf(n \div 10) \o <<Digits[(n % 10) + 1]>>

\* from_a1 lines 30-32: the sum over enumerate(reversed(col_letter))
RECURSIVE ColSum(_, _)
ColSum(rev, i) ==
    IF i = Len(rev) THEN 0
    ELSE LetterNum(rev[i + 1]) * Pow(26, i) + ColSum(rev, i + 1)

\* CellRef.from_a1 lines 26-35: int('') raises ValueError for a text
\* without a digit
FromA1(cell) ==
    LET alpha == SelectSeq(cell, IsAlpha)
        col_letter == [i \in 1..Len(alpha) |-> Upper(alpha[i])]
        digits == SelectSeq(cell, IsDigit)
    IN IF digits = <<>>
       THEN [outcome |-> "raised", error |-> "ValueError"]
       ELSE [outcome |-> "returned",
             result |-> [row |-> IntOf(digits) - 1,
                         col |-> ColSum(Reversed(col_letter), 0) - 1]]

\* to_a1 lines 41-44: the loop that builds the column letters
RECURSIVE ColLetters(_, _)
ColLetters(col, col_letter) ==
    IF col > 0
    THEN ColLetters((col - 1) \div 26,
                    <<Chr65((col - 1) % 26)>> \o col_letter)
    ELSE col_letter

\* the loop without line 42, col -= 1: plain base 26
RECURSIVE ColLettersBase26(_, _)
ColLettersBase26(col, col_letter) ==
    IF col > 0
    THEN ColLettersBase26(col \div 26, <<Chr65(col % 26)>> \o col_letter)
    ELSE col_letter

\* ToA1 with the column letters in plain base 26
ToA1Base26(ref) == ColLettersBase26(ref.col + 1, <<>>) \o StrOf(ref.row + 1)

\* CellRef.to_a1 lines 39-45
ToA1(ref) == ColLetters(ref.col + 1, <<>>) \o StrOf(ref.row + 1)

\* CellRef.from_a1(cell) returns or raises
CallFromA1 ==
    /\ pc = "from_a1"
    /\ pc' = "idle"
    /\ loc' = NoLoc
    /\ ret' = [op |-> "from_a1", cell |-> loc.cell] @@ FromA1(loc.cell)
    /\ UNCHANGED <<docker, mgr, timers, runner, host, stack>>

\* CellRef(row, col).to_a1() returns
CallToA1 ==
    /\ pc = "to_a1"
    /\ pc' = "idle"
    /\ loc' = NoLoc
    /\ ret' = [op |-> "to_a1", ref |-> loc.ref, outcome |-> "returned",
               result |-> ToA1(loc.ref)]
    /\ UNCHANGED <<docker, mgr, timers, runner, host, stack>>

\* ---------------------------------------------------------------- grading
\* the cell texts that are compared: NumberTexts are those float() parses
NumberTexts == {"0", "0.005", "0.5", "0.99", "0.995", "1", " 1", "1.0",
                "1.005", "1.01", "1.02", "2", "-1"}
OtherTexts == {"", " ", "abc", " abc"}

\* str.strip() on these texts
Strip(v) == CASE v = " " -> ""
              [] v = " abc" -> "abc"
              [] v = " 1" -> "1"
              [] OTHER -> v

\* float(v): the texts that parse as a number, and their values in
\* thousandths
IsFloat(v) == v \in NumberTexts
Float(v) == CASE v = "0" -> 0
              [] v = "0.005" -> 5
              [] v = "0.5" -> 500
              [] v = "0.99" -> 990
              [] v = "0.995" -> 995
              [] v \in {"1", " 1", "1.0"} -> 1000
              [] v = "1.005" -> 1005
              [] v = "1.01" -> 1010
              [] v = "1.02" -> 1020
              [] v = "2" -> 2000
              [] v = "-1" -> -1000

Abs(x) == IF x < 0 THEN -x ELSE x

\* compare_numeric lines 37-49, with the tolerance in hundredths: relative
\* difference below the tolerance (absolute where the reference is 0);
\* texts that are not numbers are compared as stripped strings
CompareNumeric(value1, value2, tolerance) ==
    IF IsFloat(value1) /\ IsFloat(value2)
    THEN IF Float(value2) = 0
         THEN Abs(Float(value1) - Float(value2)) < 10 * tolerance
         ELSE Abs(Float(value1) - Float(value2)) * 100
                 < Abs(Float(value2)) * tolerance
    ELSE Strip(value1) = Strip(value2)

\* a call of compare_numeric(value1, value2, tolerance) returns
CallCompareNumeric(value1, value2, tolerance) ==
    /\ pc = "idle"
    /\ ret' = [op |-> "compare_numeric", value1 |-> value1,
               value2 |-> value2, tolerance |-> tolerance,
               result |-> CompareNumeric(value1, value2, tolerance)]
    /\ UNCHANGED <<docker, mgr, timers, runner, runs, registry, env, grading,
                   pc, stack, loc>>

\* formulas_match lines 60-69: whether sympy parses the formula once the
\* leading = is dropped, and the expression it simplifies to
SympyParses(f) == f \in {"=A1+B1", "=B1+A1", "=A1"}
Simplified(f) == CASE f \in {"=A1+B1", "=B1+A1"} -> "a1 + b1"
                   [] f = "=A1" -> "a1"

\* formulas_match lines 73-74: blanks and = removed, upper case
Normalised(f) == CASE f \in {"=sum(A1:B1)", "=SUM(A1:B1)"} -> "SUM(A1:B1)"
                   [] f = "=A1+B1" -> "A1+B1"
                   [] f = "=B1+A1" -> "B1+A1"
                   [] f = "=A1" -> "A1"
                   [] OTHER -> f

\* formulas_match lines 52-75
FormulasMatch(formula1, formula2) ==
    IF SympyParses(formula1) /\ SympyParses(formula2)
    THEN Simplified(formula1) = Simplified(formula2)
    ELSE Normalised(formula1) = Normalised(formula2)

\* the counters and the error list of grade_task_run lines 90-92
ZeroTally == [total_cells |-> 0, correct_cells |-> 0, errors |-> <<>>]

GradeError(text, file, row, col) ==
    [text |-> text, file |-> file, row |-> row, col |-> col]

Charged(n, error) ==
    [total_cells |-> n, correct_cells |-> 0, errors |-> <<error>>]

Correct == [total_cells |-> 1, correct_cells |-> 1, errors |-> <<>>]

AddTally(a, b) ==
    [total_cells |-> a.total_cells + b.total_cells,
     correct_cells |-> a.correct_cells + b.correct_cells,
     errors |-> a.errors \o b.errors]

\* the tallies added up in order, by halves
RECURSIVE SumTallies(_)
SumTallies(ts) ==
    IF ts = <<>> THEN ZeroTally
    ELSE IF Len(ts) = 1 THEN ts[1]
    ELSE LET half == Len(ts) \div 2
         IN AddTally(SumTallies(SubSeq(ts, 1, half)),
                     SumTallies(SubSeq(ts, half + 1, Len(ts))))

RECURSIVE SumLen(_)
SumLen(rows) == IF rows = <<>> THEN 0 ELSE Len(Head(rows)) + SumLen(Tail(rows))

\* lines 129-165: one reference cell against the output row
GradeCell(file, row, col, oracle_cell, output_row) ==
    IF Strip(oracle_cell[1]) = "" /\ Strip(oracle_cell[2]) = ""
    THEN ZeroTally
    ELSE IF col > Len(output_row)
    THEN Charged(1, GradeError("cell missing", file, row, col))
    ELSE IF output_row[col][2] # ""
    THEN IF oracle_cell[2] # ""
         THEN IF FormulasMatch(output_row[col][2], oracle_cell[2])
              THEN Correct
              ELSE Charged(1, GradeError("formula mismatch", file, row, col))
         ELSE Charged(1, GradeError("expected value, got formula",
                                    file, row, col))
    ELSE IF CompareNumeric(output_row[col][1], oracle_cell[1], TolerancePercent)
    THEN Correct
    ELSE Charged(1, GradeError("value mismatch", file, row, col))

\* the sheet of that name in a read_ods_data result (a dict: the last one)
HasSheet(sheets, name) == \E i \in 1..Len(sheets) : sheets[i].name = name
SheetRows(sheets, name) ==
    LET i == CHOOSE i \in 1..Len(sheets) :
                 /\ sheets[i].name = name
                 /\ \A j \in (i + 1)..Len(sheets) : sheets[j].name # name
    IN sheets[i].rows

\* lines 121-165: the rows of one reference sheet
GradeRows(file, oracle_rows, output_rows) ==
    SumTallies([r \in 1..Len(oracle_rows) |->
        IF r > Len(output_rows)
        THEN Charged(Len(oracle_rows[r]),
                     GradeError("row missing", file, r, 0))
        ELSE SumTallies([c \in 1..Len(oracle_rows[r]) |->
                 GradeCell(file, r, c, oracle_rows[r][c], output_rows[r])])])

\* lines 113-165: every sheet of the reference
GradeSheets(file, oracle_data, output_data) ==
    SumTallies([i \in 1..Len(oracle_data) |->
        IF ~HasSheet(output_data, oracle_data[i].name)
        THEN Charged(SumLen(oracle_data[i].rows),
                     GradeError("sheet missing", file, 0, 0))
        ELSE GradeRows(file, oracle_data[i].rows,
                       SheetRows(output_data, oracle_data[i].name))])

\* GradeFile where an absent output file is skipped without an error
GradeFileMissingSilent(file, output_file, oracle_file) ==
    IF output_file.kind = "missing" \/ oracle_file.kind = "missing"
    THEN ZeroTally
    ELSE IF output_file.kind = "corrupt" \/ oracle_file.kind = "corrupt"
    THEN [ZeroTally EXCEPT
            !.errors = <<GradeError("Failed to parse", file, 0, 0)>>]
    ELSE GradeSheets(file, oracle_file.sheets, output_file.sheets)

\* lines 94-165: one expected-output file
GradeFile(file, output_file, oracle_file) ==
    IF output_file.kind = "missing"
    THEN [ZeroTally EXCEPT
            !.errors = <<GradeError("Output file missing", file, 0, 0)>>]
    ELSE IF oracle_file.kind = "missing"
    THEN ZeroTally
    ELSE IF output_file.kind = "corrupt" \/ oracle_file.kind = "corrupt"
    THEN [ZeroTally EXCEPT
            !.errors = <<GradeError("Failed to parse", file, 0, 0)>>]
    ELSE GradeSheets(file, oracle_file.sheets, output_file.sheets)

\* lines 94-165: the loop over expected_outputs
GradeFiles(d) ==
    SumTallies([i \in 1..Len(d.task.expected_outputs) |->
        GradeFile(d.task.expected_outputs[i],
                  d.output[i], d.oracle[i])])

\* round(score, 3) of lines 187 / 289, in thousandths.  Where
\* correct/total lies exactly between two thousandths, Python rounds the
\* double nearest to the quotient, which may be on either side; the even
\* neighbour is taken here
Round3(correct, total) ==
    LET q == (1000 * correct) \div total
        r == (1000 * correct) % total
    IN IF 2 * r < total THEN q
       ELSE IF 2 * r > total THEN q + 1
       ELSE IF q % 2 = 0 THEN q ELSE q + 1

\* Passed with the 90% threshold for every module and mode
PassedAt90(module, mode, correct, total) == 10 * correct >= 9 * total

\* grader.py line 173: passed = (score == 1.0); evaluation/grader.py lines
\* 272-278: score == 1.0 for computer_use, score >= 0.9 otherwise
Passed(module, mode, correct, total) ==
    IF module = "grader" \/ mode = "computer_use"
    THEN correct = total
    ELSE 10 * correct >= 9 * total

\* the feedback text: its wording, the first five errors and the count of
\* the others (lines 175-183 / 280-285)
Feedback(text, errors) ==
    [text |-> text,
     errors |-> SubSeq(errors, 1, IF Len(errors) > 5 THEN 5 ELSE Len(errors)),
     more |-> IF Len(errors) > 5 THEN Len(errors) - 5 ELSE 0]

FeedbackText(module, mode, passed) ==
    IF module = "grader"
    THEN IF passed THEN "Perfect! All cells correct"
         ELSE "Failed (100% required)"
    ELSE IF mode = "computer_use" THEN "Correct (100% required for computer_use)"
         ELSE "Correct (90% threshold)"

\* Scored where a run without a scorable cell passes with score 1.0
ScoredEmptyPasses(module, mode, t) ==
    LET passed == \/ t.total_cells = 0
                  \/ Passed(module, mode, t.correct_cells, t.total_cells)
    IN [passed |-> passed,
        score |-> IF t.total_cells = 0 THEN 1000
                  ELSE Round3(t.correct_cells, t.total_cells),
        feedback |-> Feedback(FeedbackText(module, mode, passed), t.errors),
        details |-> t]

\* lines 167-194 / 264-296: score, verdict and the result dict
Scored(module, mode, t) ==
    IF t.total_cells = 0
    THEN [passed |-> FALSE, score |-> 0,
          feedback |-> Feedback("No cells to grade", <<>>),
          details |-> t]
    ELSE LET passed == Passed(module, mode, t.correct_cells, t.total_cells)
         IN [passed |-> passed,
             score |-> Round3(t.correct_cells, t.total_cells),
             feedback |-> Feedback(FeedbackText(module, mode, passed),
                                   t.errors),
             details |-> t]

\* lines 196-203 / 298-305: the result built in the except clause
ErrorResult(error) ==
    [passed |-> FALSE, score |-> 0,
     feedback |-> Feedback("Grading error", <<>>), error |-> error]

\* line 88 / lines 169-173
TrivialPass ==
    [passed |-> TRUE, score |-> 1000,
     feedback |-> Feedback("No expected outputs defined", <<>>)]

\* GradeTaskRun without the early return for a task that declares no
\* expected output
GradeTaskRunNoTrivialPass(module, d) ==
    IF d.task.state \in {"unknown", "no_tasks_dir"}
    THEN ErrorResult("Task not found")
    ELSE IF d.task.state = "malformed" THEN ErrorResult("JSONDecodeError")
    ELSE Scored(module, d.task.mode, GradeFiles(d))

\* grade_task_run of the given module on the files d: load_task raises for
\* a task without task.json (also where TaskManager() has only just made
\* the tasks directory) and for a task.json that is not JSON, which the
\* except clause turns into a result; no expected outputs is a pass
GradeTaskRun(module, d) ==
    IF d.task.state \in {"unknown", "no_tasks_dir"}
    THEN ErrorResult("Task not found")
    ELSE IF d.task.state = "malformed" THEN ErrorResult("JSONDecodeError")
    ELSE IF d.task.expected_outputs = <<>> THEN TrivialPass
    ELSE Scored(module, d.task.mode, GradeFiles(d))

\* TaskManager.__init__ line 24, tasks_dir.mkdir(exist_ok=True): a tasks
\* directory that did not exist is there afterwards, empty
MkTasksDir(d) ==
    [d EXCEPT !.task.state = IF @ = "no_tasks_dir" THEN "unknown" ELSE @]

\* CallGradeTaskRun where grading removes from the run directory an output
\* file that it could not load
CallGradeTaskRunDropsCorrupt(module) ==
    /\ pc = "idle"
    /\ graded' = [module |-> module, result |-> GradeTaskRun(module, disk)]
    /\ disk' = [MkTasksDir(disk) EXCEPT
                  !.output = [i \in DOMAIN @ |->
                                 IF @[i] = CorruptFile THEN MissingFile
                                 ELSE @[i]]]
    /\ UNCHANGED <<docker, mgr, timers, runner, runs, registry, env,
                   pc, stack, loc, ret>>

\* CallGradeTaskRun where a run directory is graded once: a later call
\* reports that it has been graded already
CallGradeTaskRunOnce(module) ==
    /\ pc = "idle"
    /\ graded' = [module |-> module,
                  result |-> IF graded = NoGrade
                             THEN GradeTaskRun(module, disk)
                             ELSE ErrorResult("already graded")]
    /\ disk' = MkTasksDir(disk)
    /\ UNCHANGED <<docker, mgr, timers, runner, runs, registry, env,
                   pc, stack, loc, ret>>

\* a call of grade_task_run(task_id, run_dir) returns: the only thing it
\* writes is the tasks directory that TaskManager() makes
CallGradeTaskRun(module) ==
    /\ pc = "idle"
    /\ graded' = [module |-> module, result |-> GradeTaskRun(module, disk)]
    /\ disk' = MkTasksDir(disk)
    /\ UNCHANGED <<docker, mgr, timers, runner, runs, registry, env,
                   pc, stack, loc, ret>>

\* direct use of a SandboxManager
Next ==
    \/ \E m \in Mgrs, tmo \in BOOLEAN : CallStartContainer(m, tmo)
    \/ \E m \in Mgrs : CallStopContainer(m)
    \/ ManagerStep
    \/ WatchdogStep

Spec == Init /\ [][Next]_vars

\* direct use of a SandboxManager started without a deadline, with its
\* commands, file transfer, probe and reconnect
NextHandle ==
    \/ \E m \in Mgrs : CallStartContainer(m, FALSE)
    \/ \E m \in Mgrs : CallStopContainer(m)
    \/ ManagerStep
    \/ \E m \in Mgrs, op \in ManagerOps : CallManagerOp(m, op)
    \/ \E m \in Mgrs : CallIsRunning(m)
    \/ \E m \in Mgrs, id \in Cids : CallReconnect(m, id)

SpecHandle == Init /\ [][NextHandle]_vars

\* direct use of a SandboxManager started without a deadline, with the
\* extraction of lists of files
NextExtract ==
    \/ \E m \in Mgrs : CallStartContainer(m, FALSE)
    \/ \E m \in Mgrs : CallStopContainer(m)
    \/ ManagerStep
    \/ \E m \in Mgrs, file_paths \in PathLists :
          CallExtractFiles(m, file_paths)

SpecExtract == Init /\ [][NextExtract]_vars

\* one EpisodeRunner next to a SandboxManager constructed elsewhere (the
\* fallback of get_context, utils.py line 142) that attaches itself to the
\* container of the episode in progress and is cleaned up by
\* reset_environment (mcp_server.py line 821); cleanup is stop_container
\* (sandbox_manager.py line 378)
NextReset ==
    \/ \E task \in EpisodeTasks, tmo \in BOOLEAN : CallStartEpisode(task, tmo)
    \/ \E grade, cleanup \in BOOLEAN : CallEndEpisode(grade, cleanup)
    \/ \E m \in Mgrs :
          /\ mgr[m].made = "api"
          /\ runner.current_sandbox # None
          /\ mgr[runner.current_sandbox].container_id # None
          /\ CallReconnect(m, mgr[runner.current_sandbox].container_id)
    \/ \E m \in Mgrs : mgr[m].made = "api" /\ CallStopContainer(m)
    \/ ManagerStep
    \/ pc = "se_done" /\ StartEpisodeDone
    \/ pc = "ee_after" /\ EndEpisodeAfter
    \/ \E t \in Tids : WatchdogFires(t)

SpecReset == Init /\ [][NextReset]_vars

\* use of one EpisodeRunner, which constructs a manager per episode
NextEpisode ==
    \/ \E task \in EpisodeTasks, tmo \in BOOLEAN : CallStartEpisode(task, tmo)
    \/ \E grade, cleanup \in BOOLEAN : CallEndEpisode(grade, cleanup)
    \/ \E task \in EpisodeTasks : CallRunEpisode(task)
    \/ ManagerStep
    \/ RunnerStep
    \/ \E t \in Tids : WatchdogFires(t)

SpecEpisode == InitEpisode /\ [][NextEpisode]_vars

\* a process that did not start the sandbox (the MCP server run as a
\* subprocess): container 1 and run directory 1 of task t1 were made by the
\* parent process, which may have set none, some or all of the three
\* environment values, to values that are right or wrong
InitContext ==
    /\ \E st \in {"absent", "running", "exited"} :
          docker = [c \in Cids |-> IF c = 1
                                   THEN [NoContainer EXCEPT !.status = st]
                                   ELSE NoContainer]
    /\ mgr = [m \in Mgrs |-> NewMgr("no")]
    /\ timers = [t \in Tids |-> NoTimer]
    /\ runner = [current_sandbox |-> None, current_run_dir |-> NoDir]
    /\ runs = [t \in TaskIds |-> IF t = "t1" THEN {1} ELSE {}]
    /\ registry = EmptyRegistry
    /\ env \in [task_id : {"", "t1", "nosuch"},
                 run_dir : {NoDir, [task |-> "t1", num |-> 1],
                            [task |-> "t1", num |-> 2]},
                 container_id : {None, 1}]
    /\ disk = NoDisk
    /\ graded = NoGrade
    /\ pc = "idle"
    /\ stack = <<>>
    /\ loc = NoLoc
    /\ ret = NoRet

NextContext ==
    \/ \E k \in Keys : GetContext(k)
    \/ \E k \in Keys : ClearContext(k)
    \/ \E m \in Mgrs : CallIsRunning(m)

SpecContext == InitContext /\ [][NextContext]_vars

\* a process serving several sessions: the episodes of tasks t1 and t2 were
\* set up with run directory 1 each and container 1 runs; manager 1 was
\* constructed by the caller; the environment values are unset or name
\* the episode of t1
InitSessions ==
    /\ docker = [c \in Cids |-> IF c = 1
                                THEN [NoContainer EXCEPT !.status = "running"]
                                ELSE NoContainer]
    /\ mgr = [m \in Mgrs |-> IF m = 1 THEN NewMgr("api") ELSE NewMgr("no")]
    /\ timers = [t \in Tids |-> NoTimer]
    /\ runner = [current_sandbox |-> None, current_run_dir |-> NoDir]
    /\ runs = [t \in TaskIds |-> IF t \in KnownTasks THEN {1} ELSE {}]
    /\ registry = EmptyRegistry
    /\ env \in {NoEnv, [task_id |-> "t1",
                        run_dir |-> [task |-> "t1", num |-> 1],
                        container_id |-> 1]}
    /\ disk = NoDisk
    /\ graded = NoGrade
    /\ pc = "idle"
    /\ stack = <<>>
    /\ loc = NoLoc
    /\ ret = NoRet

NextSessions ==
    \/ \E k \in Keys, ctx \in CallerContexts : SetContext(ctx, k)
    \/ \E k \in Keys : ClearContext(k)
    \/ \E k \in Keys : GetContext(k)
    \/ \E k \in Keys : HasContext(k)

SpecSessions == InitSessions /\ [][NextSessions]_vars

\* the episode API of one process: its singleton runner and the keyless
\* default context
NextApi ==
    \/ \E task \in EpisodeTasks : ApiStartEpisode(task)
    \/ \E grade, cleanup \in BOOLEAN : ApiEndEpisode(grade, cleanup)
    \/ ManagerStep
    \/ ApiStep
    \/ \E t \in Tids : WatchdogFires(t)
    \/ HasContext(NoKey)

SpecApi == InitEpisode /\ [][NextApi]_vars

\* a process that only grades: no manager, no episode, no context
IdleProcess ==
    /\ docker = [c \in Cids |-> NoContainer]
    /\ mgr = [m \in Mgrs |-> NewMgr("no")]
    /\ timers = [t \in Tids |-> NoTimer]
    /\ runner = [current_sandbox |-> None, current_run_dir |-> NoDir]
    /\ runs = [t \in TaskIds |-> {}]
    /\ registry = EmptyRegistry
    /\ env = NoEnv
    /\ pc = "idle"
    /\ stack = <<>>
    /\ loc = NoLoc
    /\ ret = NoRet
    /\ graded = NoGrade

OneSheet(rows) == OdsFile(<<[name |-> SheetName, rows |-> rows]>>)

\* a one-column sheet of n rows whose first c hold "1" and the others "2"
ColumnRows(n, c) ==
    [r \in 1..n |-> << <<IF r <= c THEN "1" ELSE "2", "">> >>]

\* a task with one expected output whose reference is a column of n cells
\* "1", and an output that has c of them right
InitScore ==
    /\ IdleProcess
    /\ \E n \in 0..MaxCells, mode \in Modes :
          \E c \in 0..n :
             disk = [task |-> [state |-> "ok", expected_outputs |-> <<"f1">>,
                               mode |-> mode],
                     oracle |-> <<OneSheet(ColumnRows(n, n))>>,
                     output |-> <<OneSheet(ColumnRows(n, c))>>]

NextGrade == \E module \in GraderModules : CallGradeTaskRun(module)

SpecScore == InitScore /\ [][NextGrade]_vars

\* the files a run directory and an oracle directory hold in SpecFiles
OutputFiles == {MissingFile, CorruptFile, OdsFile(<<>>),
                OneSheet(<< << <<"1", "">> >> >>),
                OneSheet(<< << <<"2", "">> >> >>)}
OracleFiles == {MissingFile, CorruptFile,
                OneSheet(<< << <<"", "">> >> >>),
                OneSheet(<< << <<"1", "">> >> >>)}

\* a task id with or without a readable task.json that declares the first
\* n of MaxFiles file names as expected outputs, with some oracle file for
\* each of them, and a run directory that holds any files under the
\* MaxFiles names (none at all where the directory is empty or missing);
\* where there is no tasks directory yet there is no task file either
InitFiles ==
    /\ IdleProcess
    /\ \E state \in {"ok", "unknown", "malformed", "no_tasks_dir"},
          n \in 0..MaxFiles, mode \in Modes :
          \E oracle \in [1..n -> OracleFiles],
             output \in [1..MaxFiles -> OutputFiles] :
             /\ state = "no_tasks_dir" => n = 0 /\ mode = "tool_use"
             /\ disk = [task |-> [state |-> state,
                                  expected_outputs |-> SubSeq(FileNames, 1, n),
                                  mode |-> mode],
                        oracle |-> oracle, output |-> output]

SpecFiles == InitFiles /\ [][NextGrade]_vars

\* the cells of a reference and of an output in SpecCells
OracleCells == {<<"", "">>, <<"1", "">>, <<"1", "=A1+B1">>}
OutputCells == {<<"1", "">>, <<"2", "">>, <<"1", "=B1+A1">>}

\* the spreadsheets of at most one sheet, MaxRows rows and MaxCols cells a
\* row over the given cells
RowsOver(cells) == UNION {[1..n -> cells] : n \in 0..MaxCols}
SheetsOver(cells) ==
    {OdsFile(<<>>)} \cup
    {OneSheet(rows) :
        rows \in UNION {[1..m -> RowsOver(cells)] : m \in 0..MaxRows}}

\* a task with one expected output, its reference and its output any two
\* such spreadsheets
InitCells ==
    /\ IdleProcess
    /\ \E oracle \in SheetsOver(OracleCells),
          output \in SheetsOver(OutputCells) :
             disk = [task |-> [state |-> "ok", expected_outputs |-> <<"f1">>,
                               mode |-> "tool_use"],
                     oracle |-> <<oracle>>, output |-> <<output>>]

SpecCells == InitCells /\ [][NextGrade]_vars

\* a sheet of the given numbers of rows and columns whose last wrong cells
\* (in row order) hold "2" and the others "1"
GridRows(rows, cols, wrong) ==
    [r \in 1..rows |->
        [c \in 1..cols |->
            <<IF (r - 1) * cols + c > rows * cols - wrong THEN "2" ELSE "1",
              "">>]]

\* a task with one expected output whose reference is a sheet of about
\* MaxGrid rows and columns of cells "1", and an output with up to MaxWrong
\* cells wrong
InitRound ==
    /\ IdleProcess
    /\ \E rows, cols \in (MaxGrid - 2)..MaxGrid, wrong \in 0..MaxWrong,
          mode \in Modes :
             disk = [task |-> [state |-> "ok", expected_outputs |-> <<"f1">>,
                               mode |-> mode],
                     oracle |-> <<OneSheet(GridRows(rows, cols, 0))>>,
                     output |-> <<OneSheet(GridRows(rows, cols, wrong))>>]

SpecRound == InitRound /\ [][NextGrade]_vars

\* compare_numeric called on any two of the texts with a tolerance of
\* 0 to MaxTolerance hundredths
InitNumeric == IdleProcess /\ disk = NoDisk

NextNumeric ==
    \E value1, value2 \in NumberTexts \cup OtherTexts,
       tolerance \in 0..MaxTolerance :
          CallCompareNumeric(value1, value2, tolerance)

SpecNumeric == InitNumeric /\ [][NextNumeric]_vars

\* the characters of the texts that are parsed, and the texts
RefChars == {"A", "B", "Z", "a", "0", "1", "5", "$"}
RefTexts == UNION {[1..n -> RefChars] : n \in 1..MaxRefLen}

\* a process about to parse one of the texts, or to format a CellRef of a
\* row index up to MaxRowIndex and a column index up to MaxColIndex
InitCellRef ==
    /\ docker = [c \in Cids |-> NoContainer]
    /\ mgr = [m \in Mgrs |-> NewMgr("no")]
    /\ timers = [t \in Tids |-> NoTimer]
    /\ runner = [current_sandbox |-> None, current_run_dir |-> NoDir]
    /\ runs = [t \in TaskIds |-> {}]
    /\ registry = EmptyRegistry
    /\ env = NoEnv
    /\ disk = NoDisk
    /\ graded = NoGrade
    /\ stack = <<>>
    /\ ret = NoRet
    /\ \/ /\ pc = "from_a1"
          /\ \E cell \in RefTexts : loc = [op |-> "from_a1", cell |-> cell]
       \/ /\ pc = "to_a1"
          /\ \E row \in 0..MaxRowIndex, col \in 0..MaxColIndex :
                loc = [op |-> "to_a1", ref |-> [row |-> row, col |-> col]]

NextCellRef == CallFromA1 \/ CallToA1

SpecCellRef == InitCellRef /\ [][NextCellRef]_vars

\* one EpisodeRunner used for episodes of several tasks, started and ended
\* one call at a time
NextRuns ==
    \/ \E task \in TaskIds, tmo \in BOOLEAN : CallStartEpisode(task, tmo)
    \/ \E grade, cleanup \in BOOLEAN : CallEndEpisode(grade, cleanup)
    \/ \E task \in TaskIds : CallRunEpisode(task)
    \/ ManagerStep
    \/ RunnerStep
    \/ \E t \in Tids : WatchdogFires(t)

SpecRuns == InitEpisode /\ [][NextRuns]_vars

\* ------------------------------------------------------------ properties
StopLabels == {"st_cancel", "st_stop", "st_remove", "st_finally"}

\* containers created by manager m
ContainersOf(m) == {c \in Cids : docker[c].by = m}

\* the watchdog killed container c: a kill request found it running
Killed(c) == docker[c].kills > 0 /\ docker[c].status # "running"

\* C1: once the watchdog has killed a container, no further stop or kill
\* request for that container is sent to the backend.
C1_NoRequestAfterKill ==
    [][\A c \in Cids :
          Killed(c) => /\ docker'[c].stops = docker[c].stops
                       /\ docker'[c].kills = docker[c].kills]_vars

\* a handler step of timer t taken after stop_container has completed on its
\* manager: the manager holds no container, has dropped the timer, and the
\* main thread is in no call
LateHandlerStep(t) ==
    /\ timers[t].state \in {"dispatched", "h_check", "h_kill"}
    /\ timers'[t].state # timers[t].state
    /\ mgr[timers[t].m].container = None
    /\ mgr[timers[t].m].timeout_timer # t
    /\ pc = "idle"

\* C2: a watchdog handler that runs after stop_container has completed is a
\* no-op: it sends no kill and changes no manager field.
C2_LateHandlerNoOp ==
    [][\A t \in Tids : LateHandlerStep(t) => mgr' = mgr /\ docker' = docker]_vars

\* C3: when the watchdog of a manager has fired and stop_container was not
\* called since it was armed (the manager still refers to the timer), the
\* manager holds no handle and is marked timed-out.
C3_FiredMeansAbsent ==
    \A t \in Tids :
        (timers[t].state = "done" /\ mgr[timers[t].m].timeout_timer = t)
        => /\ mgr[timers[t].m].container = None
           /\ mgr[timers[t].m].container_id = None
           /\ mgr[timers[t].m].timed_out

\* the timer armed by the latest start_container of manager m that set one
Max(S) == CHOOSE x \in S : \A y \in S : y <= x
TimersOf(m) == {t \in Tids : timers[t].m = m}
LatestTimer(m) == IF TimersOf(m) = {} THEN None ELSE Max(TimersOf(m))

\* stop_container cancelled the latest watchdog of m before it was
\* dispatched, and no start_container has run since
StoppedInTime(m) ==
    /\ pc = "idle"
    /\ mgr[m].container = None
    /\ LatestTimer(m) # None
    /\ timers[LatestTimer(m)].state = "cancelled"

\* C4: a watchdog cancelled by stop_container before its deadline never runs
\* afterwards, and timed_out is false in every state from that stop to the
\* next start.
C4_CancelledNeverFires ==
    [][/\ \A t \in Tids : timers[t].state = "cancelled"
                            => timers'[t].state = "cancelled"
       /\ \A m \in Mgrs : StoppedInTime(m)' => ~mgr'[m].timed_out]_vars

Running(m) == {c \in ContainersOf(m) : docker[c].status = "running"}

\* C5 as stated: at most one container started by a manager is live in the
\* backend.
C5_AtMostOneLive == \A m \in Mgrs : Cardinality(Running(m)) <= 1

\* C5 amended: a live container of a manager that was never sent a stop
\* request is the one the manager holds (an old container stays live only
\* if its stop request failed), and every armed watchdog is the current
\* timer of its manager (the old one was cancelled before the new container
\* was created).
C5_OldStoppedBeforeNew ==
    /\ \A m \in Mgrs : \A c \in Running(m) :
           docker[c].stops = 0 => mgr[m].container = c
    /\ \A t \in Tids : timers[t].state = "armed"
                         => mgr[timers[t].m].timeout_timer = t

\* a manager restarted: its first container is removed, its second is live
C5_Witness ==
    \E m \in Mgrs : \E c1, c2 \in ContainersOf(m) :
        /\ c1 # c2
        /\ docker[c1].status = "removed"
        /\ docker[c2].status = "running"
        /\ mgr[m].container = c2
        /\ \E t \in TimersOf(m) : timers[t].state = "cancelled"

\* stop_container finishes: its last statement runs and control leaves it
StopFinishes == pc \in {"st_cancel", "st_finally"} /\ pc' \notin StopLabels

\* C6: whenever stop_container finishes, the manager holds no handle and has
\* no armed watchdog, also after a failed backend request, and the call
\* returns to its caller instead of raising.
C6_StopAlwaysClears ==
    [][StopFinishes =>
          /\ mgr'[loc.m].container = None
          /\ mgr'[loc.m].container_id = None
          /\ mgr'[loc.m].timeout_timer = None
          /\ \A t \in Tids : timers'[t].m = loc.m => timers'[t].state # "armed"
          /\ IF stack = <<>>
             THEN ret'.op = "stop_container" /\ ret'.outcome = "returned"
             ELSE pc' = Head(stack)]_vars

\* stop_container returned although the backend failed its stop request:
\* the container is still live and the manager no longer holds it
C6_Witness ==
    /\ pc = "idle"
    /\ ret.op = "stop_container"
    /\ ret.outcome = "returned"
    /\ mgr[ret.m].container = None
    /\ \E c \in Running(ret.m) : docker[c].stops > 0

\* manager m holds no handle and has no watchdog pending cancellation
NoHandle(m) ==
    /\ mgr[m].container = None
    /\ mgr[m].container_id = None
    /\ mgr[m].timeout_timer = None
    /\ \A t \in TimersOf(m) : timers[t].state # "armed"

\* every container manager m started was sent a stop request
StopRequested(m) == \A c \in ContainersOf(m) : docker[c].stops > 0

\* C7: when start_episode fails, no container created by that call is
\* running, the orchestrator holds no current sandbox, and the manager of
\* the failed start_container has no handle and no armed watchdog.
C7_FailedStartLeavesNothing ==
    (pc = "idle" /\ ret.op = "start_episode" /\ ret.outcome = "raised")
    => /\ runner.current_sandbox = None
       /\ ret.m # None => Running(ret.m) = {} /\ NoHandle(ret.m)

\* C8: when run_episode returns or re-raises after the callback, the
\* episode's sandbox has been stopped and the orchestrator holds no current
\* sandbox; after a raising callback nothing was graded and the call raises,
\* after a returning callback the grading result is returned.
C8_RunEpisodeNeverLeaks ==
    [][(pc \in {"re_ret", "re_raise"} /\ pc' # pc) =>
          /\ runner.current_sandbox = None
          /\ NoHandle(loc.m)
          /\ StopRequested(loc.m)
          /\ pc = "re_raise" => loc.result = NoResult /\ ret'.outcome = "raised"
          /\ pc = "re_ret" => /\ loc.result \in GradeOutcomes
                              /\ ret'.outcome = "returned"
                              /\ ret'.result = loc.result]_vars

\* run_episode raised after its callback raised: the sandbox it started was
\* stopped and removed
C8_Witness ==
    /\ pc = "idle"
    /\ ret.op = "run_episode"
    /\ ret.outcome = "raised"
    /\ ret.m # None
    /\ runner.current_sandbox = None
    /\ \E c \in ContainersOf(ret.m) :
           docker[c].stops > 0 /\ docker[c].status = "removed"

\* C9: at most one container that was never asked to stop is running: a
\* start_episode issued during an active episode leaves no earlier container
\* running and untracked.
C9_OneEpisodeInFlight ==
    Cardinality({c \in Cids : docker[c].status = "running"
                              /\ docker[c].stops = 0}) <= 1

\* C10: after end_episode on an active episode, whatever grade, cleanup and
\* the grading outcome were, the runner holds no current sandbox and the
\* sandbox that was current has been stopped.
C10_EndAlwaysStops ==
    (pc = "idle" /\ ret.op = "end_episode")
    => /\ runner.current_sandbox = None
       /\ ret.outcome = "returned"
       /\ ret.m # None => NoHandle(ret.m) /\ StopRequested(ret.m)

\* end_episode returned the result of a grading that ended in an internal
\* error, and the sandbox is gone
C10_Witness ==
    /\ pc = "idle"
    /\ ret.op = "end_episode"
    /\ ret.result = "error"
    /\ ret.m # None
    /\ runner.current_sandbox = None
    /\ mgr[ret.m].container = None

\* the run directory the runner refers to exists in runs_dir
RunDirExists ==
    /\ runner.current_run_dir # NoDir
    /\ runner.current_run_dir.num \in runs[runner.current_run_dir.task]

\* end_episode has just graded: its first step computed a grading result
GradingStep ==
    /\ pc \in {"idle", "re_cb"}
    /\ pc' = "st_cancel"
    /\ loc'.result \in GradeOutcomes

\* end_episode(grade=True, cleanup=True) runs its last statements
DeletingStep ==
    /\ pc = "ee_after"
    /\ pc' # pc
    /\ loc.cleanup
    /\ loc.result \in GradeOutcomes

\* C11: in end_episode(grade=True, cleanup=True) the grading reads a run
\* directory that exists while the sandbox has not been asked to stop; the
\* directory is deleted only after the sandbox was stopped; the result
\* returned is the one grading computed; after the call the directory is
\* gone.
C11_GradeStopDelete ==
    [][/\ GradingStep => /\ RunDirExists
                         /\ ~StopRequested(loc'.m)
                         /\ RunDirExists'
       /\ DeletingStep => /\ RunDirExists
                          /\ NoHandle(loc.m)
                          /\ StopRequested(loc.m)
                          /\ ~RunDirExists'
                          /\ ret'.outcome = "returned"
                          /\ ret'.result = loc.result]_vars

\* end_episode(grade=True, cleanup=True) returned a grading result, the
\* sandbox is gone and so is the run directory
C11_Witness ==
    /\ pc = "idle"
    /\ ret.op = "end_episode"
    /\ ret.outcome = "returned"
    /\ ret.result \in GradeOutcomes
    /\ ret.m # None
    /\ NoHandle(ret.m)
    /\ StopRequested(ret.m)
    /\ runner.current_run_dir # NoDir
    /\ ~RunDirExists

\* end_episode is called while the runner has no current sandbox
IdleEndEpisode ==
    /\ pc = "idle"
    /\ runner.current_sandbox = None
    /\ ret'.op = "end_episode"
    /\ ret' # ret

\* C12: end_episode without an active episode returns None without error
\* and changes nothing: nothing is graded, no sandbox is stopped and no run
\* directory is deleted, whatever grade and cleanup are.
C12_EndWithoutEpisodeNoOp ==
    [][IdleEndEpisode =>
          /\ ret'.outcome = "returned"
          /\ ret'.result = NoResult
          /\ pc' = "idle"
          /\ UNCHANGED <<docker, mgr, timers, runner, runs>>]_vars

\* end_episode returned None on a runner whose earlier episode has ended
\* and whose run directory still exists
C12_Witness ==
    /\ pc = "idle"
    /\ ret.op = "end_episode"
    /\ ret.outcome = "returned"
    /\ ret.m = None
    /\ ret.result = NoResult
    /\ runner.current_sandbox = None
    /\ RunDirExists
    /\ \E m \in Mgrs : mgr[m].made = "runner" /\ StopRequested(m)

\* start_episode(task) has set up its run directory and constructed its
\* manager: the episode is about to start its container
StartsEpisode(task) ==
    /\ pc = "idle"
    /\ pc' = "sc_run"
    /\ loc'.task = task

\* numbers known to have been given to run directories of a task: those of
\* its existing run directories and that of the runner's previous one
EarlierNums(task) ==
    runs[task] \cup (IF runner.current_run_dir.task = task
                     THEN {runner.current_run_dir.num} ELSE {})

\* C13: every start_episode is given an episode number strictly greater
\* than every number given earlier for its task, so no run directory is
\* used by two episodes.
C13_NumbersIncrease ==
    [][\A task \in TaskIds :
          StartsEpisode(task) =>
              \A n \in EarlierNums(task) : runner'.current_run_dir.num > n]_vars

\* C14: sequential episodes of a task are numbered 1, 2, ..., n: each
\* start_episode gets the number following the highest number given to its
\* task so far (1 for the first), and the run directories of every other
\* task stay as they are.
C14_SequentialPerTask ==
    [][\A task \in TaskIds :
          StartsEpisode(task) =>
              /\ runner'.current_run_dir.num =
                     IF EarlierNums(task) = {} THEN 1
                     ELSE Max(EarlierNums(task)) + 1
              /\ \A other \in TaskIds \ {task} : runs'[other] = runs[other]]_vars

\* a start_episode or run_episode call for a task id without task.json ends
StartUnknownTask ==
    /\ ret' # ret
    /\ ret'.op \in {"start_episode", "run_episode"}
    /\ ret'.task \in TaskIds \ KnownTasks

\* C15: start_episode for a task id with no task definition fails with the
\* task-not-found error and has no effect: no run directory, no sandbox, no
\* container, and the runner's current run directory and sandbox unchanged;
\* no call goes on with such a task.
C15_UnknownTaskNoEffect ==
    [][/\ StartUnknownTask =>
             /\ ret'.outcome = "raised"
             /\ ret'.error = "FileNotFoundError"
             /\ pc = "idle" /\ pc' = "idle"
             /\ UNCHANGED <<docker, mgr, timers, runner, runs>>
       /\ loc'.task \notin TaskIds \ KnownTasks]_vars

\* start_episode for an unknown task has failed during an active episode,
\* whose sandbox and run directory are still the current ones
C15_Witness ==
    /\ pc = "idle"
    /\ ret.op = "start_episode"
    /\ ret.outcome = "raised"
    /\ ret.task \in TaskIds \ KnownTasks
    /\ runs[ret.task] = {}
    /\ runner.current_sandbox # None
    /\ mgr[runner.current_sandbox].container # None
    /\ RunDirExists

\* a call of one of the ManagerOps ends on a manager that holds no handle
OpWithoutHandle ==
    /\ ret' # ret
    /\ ret'.op \in ManagerOps
    /\ mgr[ret'.m].container = None

\* C16: execute_command, copy_files_to_container and
\* extract_files_from_container on a manager without a handle fail with the
\* not-running error, send nothing to the backend and leave the manager as
\* it was.
C16_NoHandleNotRunning ==
    [][OpWithoutHandle =>
          /\ ret'.outcome = "raised"
          /\ ret'.error = NotRunningError
          /\ UNCHANGED <<docker, mgr, timers>>]_vars

\* the not-running error was raised on a manager that had started a
\* container and stopped it again
C16_Witness ==
    /\ pc = "idle"
    /\ ret.op \in ManagerOps
    /\ ret.outcome = "raised"
    /\ ret.error = NotRunningError
    /\ mgr[ret.m].container = None
    /\ \E c \in ContainersOf(ret.m) : docker[c].stops > 0 /\ ~docker[c].reqs

\* a call of reconnect_to_container ends
ReconnectEnds ==
    /\ ret' # ret
    /\ ret'.op = "reconnect_to_container"

\* C17: reconnect_to_container(id) fails whenever id does not name a
\* running container (none exists, or it is not running), and after the
\* failure the manager holds no handle to it.
C17_ReconnectNeedsRunning ==
    [][(ReconnectEnds /\ docker[ret'.cid].status # "running") =>
          /\ ret'.outcome = "raised"
          /\ ret'.error = ReconnectError
          /\ mgr'[ret'.m].container # ret'.cid]_vars

\* a call of is_running ends
IsRunningEnds ==
    /\ ret' # ret
    /\ ret'.op = "is_running"

\* C18: is_running never raises: it returns False without a handle and
\* when the held container cannot be reached, True only when the held
\* container's status is running; it changes nothing.
C18_IsRunningNeverRaises ==
    [][IsRunningEnds =>
          LET c == mgr[ret'.m].container
          IN /\ ret'.outcome = "returned"
             /\ ret'.result \in {"True", "False"}
             /\ c = None => ret'.result = "False"
             /\ (c # None /\ docker[c].status \in {"absent", "removed"})
                   => ret'.result = "False"
             /\ ret'.result = "True"
                   => c # None /\ docker[c].status = "running"
             /\ UNCHANGED <<docker, mgr, timers>>]_vars

\* is_running returned False for a held, running container the daemon
\* could not be asked about
C18_Witness ==
    /\ pc = "idle"
    /\ ret.op = "is_running"
    /\ ret.outcome = "returned"
    /\ ret.result = "False"
    /\ mgr[ret.m].container # None
    /\ docker[mgr[ret.m].container].status = "running"

\* a call of get_context ends
GetContextEnds ==
    /\ ret' # ret
    /\ ret'.op = "get_context"

\* the three environment values are all unset or empty
EnvEmpty ==
    /\ env.task_id = ""
    /\ env.run_dir = NoDir
    /\ env.container_id = None

\* C19: get_context(key) fails with the registry's own no-context error
\* only if the registry has no context for the key and the environment
\* fallback is empty; every other call returns a context or fails with
\* another error.
C19_NoContextOnlyIfBothEmpty ==
    [][(/\ GetContextEnds
        /\ ret'.outcome = "raised"
        /\ ret'.error = NoContextError(ret'.key))
       => Lookup(ret'.key) = NoCtx /\ EnvEmpty]_vars

\* get_context builds a context from the environment
Rebuilds == GetContextEnds /\ ret'.result = "environment"

\* the context of a rebuilding call is made of the environment values, its
\* manager holds the container they name, that container is running if it
\* was, and the context is what the requested key resolves to; a context
\* is rebuilt, and a manager constructed, only when the lookup missed
RebuildIsRight ==
    /\ Rebuilds =>
          /\ Lookup(ret'.key) = NoCtx
          /\ EnvComplete
          /\ ret'.outcome = "returned"
          /\ LookupIn(registry', ret'.key) = EnvContext(ret'.m)
          /\ mgr[ret'.m].made = "no"
          /\ mgr'[ret'.m].container = env.container_id
          /\ mgr'[ret'.m].container_id = env.container_id
          /\ docker' = docker
    /\ (GetContextEnds /\ Lookup(ret'.key) # NoCtx) =>
          /\ ret'.outcome = "returned"
          /\ ret'.result = "registry"
          /\ ret'.m = Lookup(ret'.key).sandbox_manager
          /\ UNCHANGED <<docker, mgr, registry>>
    /\ (/\ Rebuilds
        /\ docker[env.container_id].status = "running") =>
          docker'[mgr'[ret'.m].container].status = "running"

WritersOf(k) == IF k = "default" THEN {"default", NoKey} ELSE {k}

\* the step clears key k or registers a context under it
WritesKey(k) ==
    \/ ret' # ret /\ ret'.op = "clear_context" /\ ret'.key = k
    \/ Rebuilds /\ ret'.key = k

\* a lookup that missed with a complete environment fails only where
\* loading the task, constructing the manager or the reconnect failed, and
\* then registers nothing and keeps no manager
FallbackFailure ==
    (GetContextEnds /\ Lookup(ret'.key) = NoCtx /\ EnvComplete
                    /\ ret'.outcome = "raised")
    => /\ ret'.error \in {"FileNotFoundError", ReconnectError,
                          "RuntimeError: Cannot connect"}
       /\ ret'.error = ReconnectError
             => FALSE \in GetOutcomes(env.container_id)
       /\ UNCHANGED <<docker, mgr, registry>>

KeyWritten(k) == IF k = NoKey THEN "default" ELSE k

\* a call of set_context, clear_context or get_context ends
RegistryCallEnds ==
    /\ ret' # ret
    /\ ret'.op \in {"set_context", "clear_context", "get_context"}

\* C21: registering or clearing the context of key k (set_context,
\* clear_context, or the registration inside get_context), in any
\* interleaving with calls on other keys, leaves the context that every
\* other explicit key resolves to unchanged; and the context of an explicit
\* key changes in no other step.
C21_KeysDoNotInterfere ==
    [][\A j \in SessionIds :
          registry'.contexts[j] # registry.contexts[j]
          => RegistryCallEnds /\ KeyWritten(ret'.key) = j]_vars

\* key "default" was cleared while key "s1" held a context, which it keeps
C21_Witness ==
    /\ ret.op = "clear_context"
    /\ ret.key = "default"
    /\ registry.contexts["default"] = NoCtx
    /\ registry.contexts["s1"] \in CallerContexts
    /\ registry.default_context # NoCtx

\* episode_api.start_episode returns
ApiStartReturns ==
    /\ pc = "as_set"
    /\ pc' = "idle"
    /\ ret'.outcome = "returned"

\* episode_api.end_episode returns
ApiEndReturns ==
    /\ pc = "ae_clear"
    /\ pc' = "idle"
    /\ ret'.outcome = "returned"

\* C22: through the episode API the default context exists exactly while
\* an episode is in flight: when start_episode returns, the default context
\* is registered and is made of that episode's task, run directory and
\* sandbox manager; when end_episode returns, no default context is
\* registered and no episode is in flight; and the default context is
\* written by no other step.
C22_DefaultContextWhileInFlight ==
    [][/\ ApiStartReturns =>
             /\ HasContextIn(registry', NoKey)
             /\ runner'.current_sandbox # None
             /\ registry'.default_context =
                    [task_id |-> ret'.task,
                     run_dir |-> runner'.current_run_dir,
                     sandbox_manager |-> runner'.current_sandbox]
             /\ runner'.current_run_dir.task = ret'.task
             /\ runner'.current_run_dir.num \in runs'[ret'.task]
       /\ ApiEndReturns =>
             /\ ~HasContextIn(registry', NoKey)
             /\ runner'.current_sandbox = None
       /\ registry' # registry => pc \in {"as_set", "ae_clear"}]_vars

\* has_context() answered False after an end_episode that followed a
\* started episode: the run directory 1 of t1 was made, its manager was
\* stopped, and no default context is left
C22_Witness ==
    /\ pc = "idle"
    /\ ret.op = "has_context"
    /\ ret.result = "False"
    /\ runs["t1"] # {}
    /\ \E m \in Mgrs : mgr[m].made = "runner"
    /\ runner.current_sandbox = None
    /\ registry = EmptyRegistry

\* grade_task_run of src/grader.py, which end_episode (episode_runner.py
\* line 10) and submit_task (mcp_server.py line 378) import, returned a
\* scored result: cells were counted
ScoredBy(module) ==
    /\ graded.module = module
    /\ "details" \in DOMAIN graded.result
    /\ graded.result.details.total_cells > 0

\* correct_cells / total_cells is at least 0.90
AtLeast90(details) == 10 * details.correct_cells >= 9 * details.total_cells

\* C23: for a task that is not in computer_use mode, the grading that
\* end_episode and submit_task run passes exactly when
\* correct_cells / total_cells is at least 0.90.
C23_ToolModePassesAt90 ==
    (ScoredBy("grader") /\ disk.task.mode # "computer_use")
    => (graded.result.passed <=> AtLeast90(graded.result.details))

\* C24: for a computer_use task with at least one scorable cell, grading
\* (by either module) passes if the score correct_cells / total_cells is 1.0
\* and fails if it is anything below 1.0.
C24_GuiModeNeedsAll ==
    \A module \in GraderModules :
        (ScoredBy(module) /\ disk.task.mode = "computer_use")
        => (graded.result.passed
              <=> graded.result.details.correct_cells
                     = graded.result.details.total_cells)

\* a computer_use run with 19 of 20 cells right, score 0.95, failed
C24_Witness ==
    /\ ScoredBy("evaluation.grader")
    /\ disk.task.mode = "computer_use"
    /\ graded.result.details.total_cells = 20
    /\ graded.result.details.correct_cells = 19
    /\ graded.result.score = 950
    /\ ~graded.result.passed

\* a call of grade_task_run has returned
Graded == graded.module \in GraderModules

\* the number of cells a result was scored on: total_cells, and none for a
\* result that was built without counting
ScorableCells(result) ==
    IF "details" \in DOMAIN result THEN result.details.total_cells ELSE 0

\* C25 as stated: every grading result whose number of scorable cells is 0
\* has passed = false and score 0.
C25_NoCellsNeverPass ==
    (Graded /\ ScorableCells(graded.result) = 0)
    => (~graded.result.passed /\ graded.result.score = 0)

\* the task was loaded and declares at least one expected output
DeclaresOutputs ==
    disk.task.state = "ok" /\ disk.task.expected_outputs # <<>>

\* no expected output has both its output file and its oracle file
NothingToCompare ==
    \A i \in 1..Len(disk.task.expected_outputs) :
        disk.output[i].kind = "missing" \/ disk.oracle[i].kind = "missing"

\* C25 amended: every grading result of a task that declares at least one
\* expected-output file, and every result of a grading that failed
\* internally, whose number of scorable cells is 0 has passed = false and
\* score 0; in particular the absence of the oracle files or of the output
\* files of such a task never produces a pass.  (A task that declares no
\* expected output passes with score 1.0 without a scorable cell.)
C25_NoCellsNeverPassIfDeclared ==
    /\ (Graded /\ ScorableCells(graded.result) = 0
               /\ (DeclaresOutputs \/ disk.task.state # "ok"))
       => (~graded.result.passed /\ graded.result.score = 0)
    /\ (Graded /\ DeclaresOutputs /\ NothingToCompare)
       => (ScorableCells(graded.result) = 0 /\ ~graded.result.passed)

\* a task with two expected outputs was graded: the first output is there
\* without an oracle file, the second is absent; no cell was counted and
\* the result is a fail with score 0
C25_Witness ==
    /\ graded.module = "grader"
    /\ disk.task.state = "ok"
    /\ Len(disk.task.expected_outputs) = 2
    /\ disk.output[1].kind = "ods" /\ disk.oracle[1].kind = "missing"
    /\ disk.output[2].kind = "missing"
    /\ graded.result.details.total_cells = 0
    /\ ~graded.result.passed
    /\ graded.result.score = 0

\* C26: if the task declares no expected-output files, grading returns
\* passed = true and score = 1.0 whatever the run directory contains.
C26_NoExpectedOutputsPass ==
    (Graded /\ disk.task.state = "ok" /\ disk.task.expected_outputs = <<>>)
    => /\ graded.result.passed
       /\ graded.result.score = 1000

\* a task without expected outputs passed with score 1.0 on a run directory
\* that holds a file that is no spreadsheet and no other file
C26_Witness ==
    /\ graded.module = "grader"
    /\ disk.task.state = "ok"
    /\ disk.task.expected_outputs = <<>>
    /\ disk.output[1] = CorruptFile
    /\ \A i \in 2..Len(disk.output) : disk.output[i] = MissingFile
    /\ graded.result.passed
    /\ graded.result.score = 1000

\* expected output i is there with an oracle file, and one of the two
\* cannot be loaded as a spreadsheet
Unparseable(i) ==
    /\ disk.output[i].kind # "missing"
    /\ disk.oracle[i].kind # "missing"
    /\ disk.output[i].kind = "corrupt" \/ disk.oracle[i].kind = "corrupt"

\* something failed unexpectedly during the grading: the task is unknown,
\* its task.json is no JSON, or a file cannot be parsed
GradingFailure ==
    \/ disk.task.state # "ok"
    \/ \E i \in 1..Len(disk.task.expected_outputs) : Unparseable(i)

\* the result carries the text of an error
CarriesError(result) ==
    \/ "error" \in DOMAIN result
    \/ /\ "details" \in DOMAIN result
       /\ result.details.errors # <<>>

\* C27: grade_task_run never raises: it returns a result on every path, and
\* any unexpected failure during grading (unknown task, unreadable archive,
\* malformed document) yields a result with passed = false and score = 0
\* that carries the error text.
C27_FailureIsFailedResult ==
    Graded =>
       /\ {"passed", "score", "feedback"} \subseteq DOMAIN graded.result
       /\ GradingFailure =>
             /\ ~graded.result.passed
             /\ graded.result.score = 0
             /\ CarriesError(graded.result)

RemoveAt(seq, i) == SubSeq(seq, 1, i - 1) \o SubSeq(seq, i + 1, Len(seq))

\* the same task and files without expected output i
Without(d, i) ==
    [task |-> [d.task EXCEPT !.expected_outputs = RemoveAt(@, i)],
     oracle |-> RemoveAt(d.oracle, i),
     output |-> RemoveAt(d.output, i)]

\* C28: for every expected-output file that is absent from the run
\* directory, grading records at least one error for it and adds nothing to
\* correct_cells for that file: the counts are those of the other files.
C28_MissingOutputIsError ==
    (Graded /\ DeclaresOutputs) =>
       \A i \in 1..Len(disk.task.expected_outputs) :
          disk.output[i].kind = "missing" =>
             /\ \E e \in 1..Len(graded.result.details.errors) :
                   /\ graded.result.details.errors[e].file
                         = disk.task.expected_outputs[i]
                   /\ graded.result.details.errors[e].text
                         = "Output file missing"
             /\ graded.result.details.correct_cells
                   = GradeFiles(Without(disk, i)).correct_cells
             /\ graded.result.details.total_cells
                   = GradeFiles(Without(disk, i)).total_cells

\* two expected outputs were graded, the first right in its one cell, the
\* second absent from the run directory although its oracle file exists:
\* one cell is counted right and the errors name the second file
C28_Witness ==
    /\ graded.module = "grader"
    /\ disk.task.state = "ok"
    /\ disk.task.expected_outputs = <<"f1", "f2">>
    /\ disk.output[2].kind = "missing"
    /\ disk.oracle[2].kind = "ods"
    /\ graded.result.details.correct_cells = 1
    /\ graded.result.details.errors
          = <<GradeError("Output file missing", "f2", 0, 0)>>

\* a cell whose value or formula is not empty
NonEmpty(cell) == cell[1] # "" \/ cell[2] # ""

\* the number of such cells in a spreadsheet
NonEmptyCells(sheets) ==
    Cardinality({p \in (1..Len(sheets)) \X (1..MaxRows) \X (1..MaxCols) :
                    /\ p[2] <= Len(sheets[p[1]].rows)
                    /\ p[3] <= Len(sheets[p[1]].rows[p[2]])
                    /\ NonEmpty(sheets[p[1]].rows[p[2]][p[3]])})

\* C29: total_cells counts exactly the reference cells whose value or
\* formula is non-empty; cells with both empty are excluded everywhere,
\* including in a reference sheet or row that is missing from the output.
C29_TotalIsNonEmptyCells ==
    (Graded /\ DeclaresOutputs)
    => graded.result.details.total_cells
          = NonEmptyCells(disk.oracle[1].sheets)

\* the fields a result carries, at the top or inside its details
FieldsOf(result) ==
    DOMAIN result \cup
    (IF "details" \in DOMAIN result THEN DOMAIN result.details ELSE {})

\* C30: every result returned by grade_task_run (normal, trivial pass and
\* internal-error result) carries the fields passed, score, feedback,
\* total_cells, correct_cells and errors, with 0 <= score <= 1 and
\* 0 <= correct_cells <= total_cells.
C30_ResultShape ==
    Graded =>
       /\ {"passed", "score", "feedback", "total_cells", "correct_cells",
           "errors"} \subseteq FieldsOf(graded.result)
       /\ graded.result.score \in 0..1000
       /\ graded.result.details.correct_cells \in
             0..graded.result.details.total_cells

\* C31: grading never writes: a call of grade_task_run leaves every file
\* of the run directory and every oracle file unchanged, for every outcome
\* of the call (a pass, a fail, an internal error).
C31_GradingNeverWrites ==
    [][disk'.output = disk.output /\ disk'.oracle = disk.oracle]_vars

\* a run was graded whose first output cannot be loaded as a spreadsheet:
\* the result names the failure and the file is still as it was
C31_Witness ==
    /\ Graded
    /\ DeclaresOutputs
    /\ disk.output[1] = CorruptFile
    /\ disk.oracle[1].kind = "ods"
    /\ GradeError("Failed to parse", "f1", 0, 0)
          \in {graded.result.details.errors[i] :
                  i \in 1..Len(graded.result.details.errors)}

ComparedNumbers ==
    /\ ret.op = "compare_numeric"
    /\ IsFloat(ret.value1) /\ IsFloat(ret.value2)

\* C33 as stated: for all tolerances t and every numeric a,
\* compare_numeric(a, a, t) is true; and for numeric a, b with a != 0 whose
\* relative difference (to the reference b, where b is not 0) exceeds t,
\* compare_numeric(a, b, t) is false.
C33_CompareNumeric ==
    ComparedNumbers =>
       /\ Float(ret.value1) = Float(ret.value2) => ret.result
       /\ ( /\ Float(ret.value1) # 0
            /\ Float(ret.value2) # 0
            /\ Abs(Float(ret.value1) - Float(ret.value2)) * 100
                  > Abs(Float(ret.value2)) * ret.tolerance )
          => ~ret.result

\* an upper-case A1 reference: one or more of the letters A to Z followed
\* by a row number from 1 on, written without a leading zero
WellFormed(cell) ==
    \E k \in 1..(Len(cell) - 1) :
        /\ \A i \in 1..k : cell[i] \in Range(Letters)
        /\ \A i \in (k + 1)..Len(cell) : IsDigit(cell[i])
        /\ cell[k + 1] # "0"

\* C34: CellRef round-trips: for every row >= 0 and column >= 0,
\* from_a1(to_a1(CellRef(row, col))) equals CellRef(row, col), and for
\* every well-formed upper-case A1 reference s, to_a1(from_a1(s)) equals
\* s; in particular "B5" is row 4, column 1, and column "AA" is index 26.
C34_CellRefRoundTrip ==
    /\ ret.op = "to_a1"
       => /\ FromA1(ret.result).outcome = "returned"
          /\ FromA1(ret.result).result = ret.ref
          /\ ret.ref = [row |-> 4, col |-> 1] => ret.result = <<"B", "5">>
    /\ (ret.op = "from_a1" /\ WellFormed(ret.cell))
       => /\ ret.outcome = "returned"
          /\ ret.result.row >= 0 /\ ret.result.col >= 0
          /\ ToA1(ret.result) = ret.cell
          /\ ret.cell = <<"B", "5">> => ret.result = [row |-> 4, col |-> 1]
          /\ SubSeq(ret.cell, 1, 2) = <<"A", "A">> /\ IsDigit(ret.cell[3])
             => ret.result.col = 26

\* "AA10" was parsed, as row 9 and column 26
C34_Witness ==
    /\ ret.op = "from_a1"
    /\ ret.cell = <<"A", "A", "1", "0">>
    /\ ret.outcome = "returned"
    /\ ret.result = [row |-> 9, col |-> 26]

\* a call of extract_files_from_container ends
ExtractEnds ==
    /\ pc = "idle" /\ pc' = "idle"
    /\ ret'.op = "extract_files_from_container"

\* C35: extract_files_from_container aborts on the first path that cannot
\* be read: it raises an extraction error, returns no partial path-to-bytes
\* mapping, and does not attempt the paths after the failing one; the
\* manager's handle is left unchanged.
C35_ExtractAbortsOnFirstFailure ==
    [][ExtractEnds =>
          LET failed == {i \in 1..Len(ret'.readable) : ~ret'.readable[i]}
          IN /\ mgr' = mgr
             /\ failed # {} =>
                   /\ ret'.outcome = "raised"
                   /\ ret'.error = "RuntimeError: Could not extract"
                   /\ ret'.result = NoResult
                   /\ ret'.attempted
                         = SubSeq(ret'.file_paths, 1, Min(failed))]_vars

\* p1 and p2 were asked of a manager that holds a container; p1 could not
\* be read: the call raised without asking for p2
C35_Witness ==
    /\ ret.op = "extract_files_from_container"
    /\ ret.file_paths = <<"p1", "p2">>
    /\ ret.readable = <<FALSE, TRUE>>
    /\ ret.attempted = <<"p1">>
    /\ ret.outcome = "raised"
    /\ mgr[ret.m].container # None
    /\ docker[mgr[ret.m].container].status = "running"

\* the handler of timer t sends its kill request
HandlerKills(t) ==
    timers[t].state = "h_kill" /\ timers'[t].state = "done"

\* C36: a watchdog armed by one start_container never kills a container
\* created by a later start_container on the same manager, in any
\* interleaving of timer dispatch, stop_container and restart: a watchdog
\* sends a kill request only to the container it was armed for.
C36_WatchdogKillsOnlyItsOwn ==
    [][\A t \in Tids :
          HandlerKills(t) =>
             \A c \in Cids :
                docker'[c].kills # docker[c].kills
                => c = timers[t].armed_for]_vars

\* C37: a grading result with passed = true implies that every
\* expected-output file was present in the run directory and could be
\* parsed, even when the other expected outputs are fully correct.
C37_PassNeedsEveryOutput ==
    (Graded /\ disk.task.state = "ok" /\ graded.result.passed)
    => \A i \in 1..Len(disk.task.expected_outputs) :
          disk.output[i].kind = "ods"

\* the score, in thousandths, from which the grader of the given module
\* passes a task of the given mode (grader.py line 173,
\* evaluation/grader.py lines 272-278)
Threshold(module, mode) ==
    IF module = "grader" \/ mode = "computer_use" THEN 1000 ELSE 900

\* C38: the reported score and the passed flag of a grading result agree:
\* for every result with total_cells > 0, passed is true if and only if
\* the reported score (rounded to 3 decimals) meets the pass threshold of
\* the task's mode; in particular a reported score of 1.0 never comes with
\* passed = false.
C38_ScoreAgreesWithPassed ==
    (Graded /\ ScorableCells(graded.result) > 0)
    => /\ graded.result.passed
          <=> graded.result.score
                 >= Threshold(graded.module, disk.task.mode)
       /\ graded.result.score = 1000 => graded.result.passed

\* C39: after any sequence of register and clear calls on the
\* ContextRegistry, the keyless default lookup and the lookup under the key
\* "default" agree: get(None) succeeds exactly when get("default")
\* succeeds, they return the same context, and has_context(None) equals
\* has_context("default").
C39_DefaultLookupsAgree ==
    /\ (Lookup(NoKey) # NoCtx) <=> (Lookup("default") # NoCtx)
    /\ Lookup(NoKey) = Lookup("default")
    /\ HasContextIn(registry, NoKey) <=> HasContextIn(registry, "default")

\* the container of the episode that end_episode just ended was removed by
\* the cleanup of another manager
RemovedByAnother(m) ==
    \E c \in Cids : /\ docker[c].by = m
                    /\ docker[c].status = "removed"
                    /\ docker[c].removed_by \notin {None, m}

\* C40: end_episode on a runner whose container was already removed by the
\* cleanup of another manager (reconnected to the same container) returns
\* without raising, and leaves the runner without a current sandbox and its
\* manager without a handle and without an armed watchdog.
C40_EndEpisodeAfterForeignCleanup ==
    (pc = "idle" /\ ret.op = "end_episode" /\ ret.m # None
        /\ RemovedByAnother(ret.m))
    => /\ ret.outcome = "returned"
       /\ runner.current_sandbox = None
       /\ NoHandle(ret.m)
       /\ mgr[ret.m].timeout_timer = None
       /\ \A t \in Tids : timers[t].m = ret.m => timers[t].state # "armed"

\* an episode started with a deadline; another manager reconnected to its
\* container and its cleanup removed it; end_episode then returned, with
\* the episode's watchdog cancelled
C40_Witness ==
    /\ pc = "idle"
    /\ ret.op = "end_episode"
    /\ ret.outcome = "returned"
    /\ ret.m # None
    /\ RemovedByAnother(ret.m)
    /\ \E c \in Cids : docker[c].by = ret.m /\ docker[c].stops = 2
    /\ \E t \in Tids : timers[t].m = ret.m /\ timers[t].state = "cancelled"
    /\ runner.current_sandbox = None
====
